---------------------------- MODULE Spec2Model ----------------------------
(***************************************************************************)
(* A model of the wine-deal-scanner: the deal key builder and the field    *)
(* coercions of app/extract.py, the DealWatcher pipeline of app/watcher.py *)
(* (watch loop, network response handler, deduplication, enrichment,       *)
(* notification, legacy callback), the legacy WineDealScanner of           *)
(* app/main.py and the minimal watcher of app/watcher_minimal.py.          *)
(*                                                                         *)
(* Conventions.  Python strings are TLA+ strings; an optional value is a   *)
(* tuple, <<>> for None and <<v>> for a present v.  Amounts of money are   *)
(* integers, in cents.  Times are integers, in milliseconds.               *)
(***************************************************************************)
EXTENDS Integers, Sequences, FiniteSets, TLC

None == <<>>
Some(v) == <<v>>
IsNone(o) == o = <<>>
Val(o) == o[1]

(***************************************************************************)
(* Characters and strings.                                                 *)
(***************************************************************************)
UpperChars == "ABCDEFGHIJKLMNOPQRSTUVWXYZ"
LowerChars == "abcdefghijklmnopqrstuvwxyz"
DigitChars == "0123456789"
SpaceChars == " \t\n"

CharAt(s, i) == SubSeq(s, i, i)

InChars(c, chars) == \E i \in 1..Len(chars) : CharAt(chars, i) = c

IndexIn(c, chars) == CHOOSE i \in 1..Len(chars) : CharAt(chars, i) = c

IsDigitChar(c) == InChars(c, DigitChars)
IsSpaceChar(c) == InChars(c, SpaceChars)
\* \w of the re module, on the characters the model uses
IsWordChar(c) == InChars(c, LowerChars) \/ InChars(c, UpperChars) \/ IsDigitChar(c) \/ c = "_"

LowerChar(c) == IF InChars(c, UpperChars) THEN CharAt(LowerChars, IndexIn(c, UpperChars)) ELSE c

RECURSIVE Concat(_, _, _)
\* "".join(parts[lo..hi]), by halves
Concat(parts, lo, hi) ==
    IF lo > hi THEN ""
    ELSE IF lo = hi THEN parts[lo]
    ELSE Concat(parts, lo, (lo + hi) \div 2) \o Concat(parts, ((lo + hi) \div 2) + 1, hi)

LowerAt(s, i) == LowerChar(CharAt(s, i))

\* str.lower()
Lower(s) == Concat([i \in 1..Len(s) |-> LowerAt(s, i)], 1, Len(s))

\* the number of characters from position i on that lie in (or, with neg, outside) chars
RunLength(s, i, chars, neg) ==
    CHOOSE n \in 0..(Len(s) + 1 - i) :
        /\ \A j \in i..(i + n - 1) : InChars(CharAt(s, j), chars) # neg
        /\ (i + n > Len(s) \/ InChars(CharAt(s, i + n), chars) = neg)

LStrip(s) == SubSeq(s, 1 + RunLength(s, 1, SpaceChars, FALSE), Len(s))

RStrip(s) ==
    LET keep == CHOOSE n \in 0..Len(s) :
                    /\ \A j \in (n + 1)..Len(s) : IsSpaceChar(CharAt(s, j))
                    /\ (n = 0 \/ ~IsSpaceChar(CharAt(s, n)))
    IN  SubSeq(s, 1, keep)

\* str.strip()
Strip(s) == RStrip(LStrip(s))

\* `needle in s'
Contains(s, needle) ==
    \E i \in 1..(Len(s) + 1) : i + Len(needle) - 1 <= Len(s) /\ SubSeq(s, i, i + Len(needle) - 1) = needle

\* str.isdigit(): non-empty and all digits
IsDigitStr(s) == Len(s) > 0 /\ \A i \in 1..Len(s) : IsDigitChar(CharAt(s, i))

RECURSIVE StrToNat(_)
StrToNat(s) == IF Len(s) = 0 THEN 0 ELSE 10 * StrToNat(SubSeq(s, 1, Len(s) - 1)) + (IndexIn(CharAt(s, Len(s)), DigitChars) - 1)

(***************************************************************************)
(* Regular expressions of the re module, as far as the program uses them.  *)
(* A pattern is a record; matching returns the sequence of the ways the    *)
(* pattern can match at a position, in the order in which re's             *)
(* backtracking tries them, so the first is the match re reports.          *)
(***************************************************************************)
NoCaps == [g \in 1..3 |-> None]

ReLit(str)             == [op |-> "lit", str |-> str]
ReIn(chars)            == [op |-> "in", chars |-> chars]
ReNotIn(chars)         == [op |-> "notin", chars |-> chars]
ReCat(res)             == [op |-> "cat", res |-> res]
ReAlt(res)             == [op |-> "alt", res |-> res]
ReRep(re, lo, hi)      == [op |-> "rep", re |-> re, lo |-> lo, hi |-> hi, greedy |-> TRUE]
ReLazy(re, lo, hi)     == [op |-> "rep", re |-> re, lo |-> lo, hi |-> hi, greedy |-> FALSE]
ReGroup(n, re)         == [op |-> "group", n |-> n, re |-> re]
ReWordBoundary         == [op |-> "wb"]
ReStar(re)             == ReRep(re, 0, -1)
RePlus(re)             == ReRep(re, 1, -1)
ReOpt(re)              == ReRep(re, 0, 1)

WordChars  == LowerChars \o UpperChars \o DigitChars \o "_"
ReDigit    == ReIn(DigitChars)
ReNonDigit == ReNotIn(DigitChars)
ReSpace    == ReIn(SpaceChars)

\* a repeated character class (the program's classes hold no letters, so the case flag does not
\* matter): the run of such characters from i on, longest match first when greedy
ReMatchRun(re, s, i, caps) ==
    LET run == RunLength(s, i, re.re.chars, re.re.op = "notin")
        most == IF re.hi = -1 \/ run < re.hi THEN run ELSE re.hi
        count == IF most >= re.lo THEN most - re.lo + 1 ELSE 0
    IN  [k \in 1..count |->
            [p |-> i + (IF re.greedy THEN most - (k - 1) ELSE re.lo + (k - 1)), c |-> caps]]

RECURSIVE ReMatch(_, _, _, _, _)
RECURSIVE ReMatchCat(_, _, _, _, _, _)
RECURSIVE ReMatchAlt(_, _, _, _, _, _)
RECURSIVE ReMatchRep(_, _, _, _, _, _)
RECURSIVE ReRepMore(_, _, _, _, _, _, _, _)
RECURSIVE ReCatRest(_, _, _, _, _, _, _)

\* the ways re matches s from position i on: a sequence of [p: the position after the match, c: the groups]
ReMatch(re, s, i, caps, ic) ==
    CASE re.op = "lit" ->
           IF i + Len(re.str) - 1 <= Len(s)
              /\ (IF ic THEN Lower(SubSeq(s, i, i + Len(re.str) - 1)) = Lower(re.str)
                        ELSE SubSeq(s, i, i + Len(re.str) - 1) = re.str)
           THEN << [p |-> i + Len(re.str), c |-> caps] >> ELSE << >>
      [] re.op = "in" ->
           IF i <= Len(s) /\ (InChars(CharAt(s, i), re.chars) \/ (ic /\ InChars(LowerChar(CharAt(s, i)), re.chars)))
           THEN << [p |-> i + 1, c |-> caps] >> ELSE << >>
      [] re.op = "notin" ->
           IF i <= Len(s) /\ ~InChars(CharAt(s, i), re.chars)
           THEN << [p |-> i + 1, c |-> caps] >> ELSE << >>
      [] re.op = "wb" ->
           IF (i > 1 /\ i - 1 <= Len(s) /\ InChars(CharAt(s, i - 1), WordChars))
              # (i <= Len(s) /\ InChars(CharAt(s, i), WordChars))
           THEN << [p |-> i, c |-> caps] >> ELSE << >>
      [] re.op = "cat" -> ReMatchCat(re.res, 1, s, i, caps, ic)
      [] re.op = "alt" -> ReMatchAlt(re.res, 1, s, i, caps, ic)
      [] re.op = "rep" -> IF re.re.op \in {"in", "notin"} THEN ReMatchRun(re, s, i, caps)
                          ELSE ReMatchRep(re, s, i, caps, ic, 0)
      [] re.op = "group" ->
           LET inner == ReMatch(re.re, s, i, caps, ic)
           IN  [k \in 1..Len(inner) |->
                  [p |-> inner[k].p,
                   c |-> [inner[k].c EXCEPT ![re.n] = Some(SubSeq(s, i, inner[k].p - 1))]]]

\* for each of the ways first[lo..hi] the part before matched, in order, the ways the parts
\* from k on match after it (by halves)
ReCatRest(first, res, k, s, ic, lo, hi) ==
    IF lo > hi THEN << >>
    ELSE IF lo = hi THEN ReMatchCat(res, k, s, first[lo].p, first[lo].c, ic)
    ELSE ReCatRest(first, res, k, s, ic, lo, (lo + hi) \div 2)
         \o ReCatRest(first, res, k, s, ic, ((lo + hi) \div 2) + 1, hi)

ReCatFrom(first, res, k, s, ic) == ReCatRest(first, res, k, s, ic, 1, Len(first))

ReMatchCat(res, k, s, i, caps, ic) ==
    IF k > Len(res) THEN << [p |-> i, c |-> caps] >>
    ELSE ReCatFrom(ReMatch(res[k], s, i, caps, ic), res, k + 1, s, ic)

ReMatchAlt(res, k, s, i, caps, ic) ==
    IF k > Len(res) THEN << >>
    ELSE ReMatch(res[k], s, i, caps, ic) \o ReMatchAlt(res, k + 1, s, i, caps, ic)

\* for each of the ways one[lo..hi] one more repetition matched (consuming something), in
\* order, the ways the repetition goes on (by halves)
ReRepMore(one, re, s, i, ic, n, lo, hi) ==
    IF lo > hi THEN << >>
    ELSE IF lo = hi
         THEN (IF one[lo].p > i THEN ReMatchRep(re, s, one[lo].p, one[lo].c, ic, n + 1) ELSE << >>)
    ELSE ReRepMore(one, re, s, i, ic, n, lo, (lo + hi) \div 2)
         \o ReRepMore(one, re, s, i, ic, n, ((lo + hi) \div 2) + 1, hi)

ReRepFrom(one, re, s, i, ic, n) == ReRepMore(one, re, s, i, ic, n, 1, Len(one))

ReMatchRep(re, s, i, caps, ic, n) ==
    LET more == IF re.hi = -1 \/ n < re.hi
                THEN ReRepFrom(ReMatch(re.re, s, i, caps, ic), re, s, i, ic, n)
                ELSE << >>
        stop == IF n >= re.lo THEN << [p |-> i, c |-> caps] >> ELSE << >>
    IN  IF re.greedy THEN more \o stop ELSE stop \o more

\* re.search(re, s): None, or Some of the leftmost match [start, end, c: the groups]
ReSearch(re, s, ic) ==
    LET starts == {i \in 1..(Len(s) + 1) : Len(ReMatch(re, s, i, NoCaps, ic)) > 0}
    IN  IF starts = {} THEN None
        ELSE LET i == CHOOSE a \in starts : \A b \in starts : a <= b
                 m == ReMatch(re, s, i, NoCaps, ic)[1]
             IN  Some([start |-> i, end |-> m.p, c |-> m.c])

\* match.group(0)
Group0(s, m) == SubSeq(s, Val(m).start, Val(m).end - 1)


(***************************************************************************)
(* JSON values as the program sees them after response.json(): a tagged    *)
(* record; a dict is the sequence of its (key, value) pairs in insertion   *)
(* order.                                                                  *)
(***************************************************************************)
JNull       == [t |-> "null"]
\* a float, in cents
JNum(cents) == [t |-> "num", n |-> cents]
\* an int
JInt(n)     == [t |-> "int", n |-> n]
JStr(str)   == [t |-> "str", s |-> str]
JDict(kvs)  == [t |-> "dict", kvs |-> kvs]

\* `k in d'
Has(d, k) == \E i \in 1..Len(d.kvs) : d.kvs[i][1] = k

\* d.get(k)
Get(d, k) == IF Has(d, k) THEN d.kvs[CHOOSE i \in 1..Len(d.kvs) : d.kvs[i][1] = k][2] ELSE JNull

\* bool(v)
Truthy(v) ==
    CASE v.t = "null" -> FALSE
      [] v.t = "num"  -> v.n # 0
      [] v.t = "int"  -> v.n # 0
      [] v.t = "str"  -> v.s # ""
      [] v.t = "dict" -> Len(v.kvs) > 0

\* a or b
PyOr(a, b) == IF Truthy(a) THEN a ELSE b

\* repr of a float given in cents: 29.99, 30.0, -2.5
FloatRepr(cents) ==
    LET a == IF cents < 0 THEN -cents ELSE cents
    IN  (IF cents < 0 THEN "-" ELSE "") \o ToString(a \div 100) \o "."
        \o (IF a % 10 = 0 THEN ToString((a % 100) \div 10)
            ELSE ToString((a % 100) \div 10) \o ToString(a % 10))

RECURSIVE PyRepr(_)
RECURSIVE PyReprItems(_, _)
\* repr(v), which str(dict) uses for the keys and values (strings without quote characters)
PyRepr(v) ==
    CASE v.t = "null" -> "None"
      [] v.t = "num"  -> FloatRepr(v.n)
      [] v.t = "int"  -> ToString(v.n)
      [] v.t = "str"  -> "'" \o v.s \o "'"
      [] v.t = "dict" -> "{" \o PyReprItems(v.kvs, 1) \o "}"

PyReprItems(kvs, i) ==
    IF i > Len(kvs) THEN ""
    ELSE "'" \o kvs[i][1] \o "': " \o PyRepr(kvs[i][2])
         \o (IF i < Len(kvs) THEN ", " ELSE "") \o PyReprItems(kvs, i + 1)

\* str(v)
PyStr(v) == IF v.t = "str" THEN v.s ELSE PyRepr(v)

\* s with the characters of `chars' removed: s.replace(",", ""), re.sub(r'[,$..]', '', s)
RemoveChars(s, chars) ==
    Concat([i \in 1..Len(s) |-> IF InChars(CharAt(s, i), chars) THEN "" ELSE CharAt(s, i)], 1, Len(s))

\* float() of digits with an optional fraction, in cents (digits after the second decimal are cut)
DecimalToCents(str) ==
    LET dot == IF InChars(".", str) THEN IndexIn(".", str) ELSE Len(str) + 1
        int == SubSeq(str, 1, dot - 1)
        frac == SubSeq(str, dot + 1, Len(str))
        f2 == SubSeq(frac \o "00", 1, 2)
    IN  StrToNat(int) * 100 + StrToNat(f2)

\* [0-9]+(?:\.[0-9]+)?
ReNumber == ReCat(<< RePlus(ReDigit), ReOpt(ReCat(<< ReLit("."), RePlus(ReDigit) >>)) >>)

\* extract._to_float on a string
FloatOfMatch(m) == IF IsNone(m) THEN None ELSE Some(DecimalToCents(Val(Val(m).c[1])))

StrToFloat(str) == FloatOfMatch(ReSearch(ReGroup(1, ReNumber), RemoveChars(str, ","), FALSE))

\* extract._to_float: an optional amount in cents
to_float(v) ==
    CASE v.t = "null" -> None
      [] v.t = "num"  -> Some(v.n)
      [] v.t = "int"  -> Some(v.n * 100)
      [] v.t = "str"  -> StrToFloat(v.s)
      [] v.t = "dict" -> None

CurrencyChars == "$€£"
NestedPriceKeys == << "prices", "pricing", "priceInfo" >>
LastBottleKeys == << "last_bottle", "lastBottle", "lastBottlePrice", "last_bottle_price", "lb" >>

\* last\s*bottle[^$..]*([$..]\s*[0-9]+(?:\.[0-9]+)?)
ReLastBottleNear ==
    ReCat(<< ReLit("last"), ReStar(ReSpace), ReLit("bottle"), ReStar(ReNotIn(CurrencyChars)),
             ReGroup(1, ReCat(<< ReIn(CurrencyChars), ReStar(ReSpace), ReNumber >>)) >>)

RECURSIVE FirstSome(_, _)
\* the first present value of a sequence of optional values
FirstSome(opts, i) ==
    IF i > Len(opts) THEN None
    ELSE IF ~IsNone(opts[i]) THEN opts[i] ELSE FirstSome(opts, i + 1)

\* the key lookups of pick_lastbottle_price, in the order the loops make them
\* _to_float(d[key]) when d is a dict that holds key
LookupFloat(d, key) == IF d.t = "dict" /\ Has(d, key) THEN to_float(Get(d, key)) ELSE None

LastBottleLookups(obj) ==
    [j \in 1..(Len(NestedPriceKeys) * Len(LastBottleKeys)) |->
        LookupFloat(Get(obj, NestedPriceKeys[((j - 1) \div Len(LastBottleKeys)) + 1]),
                    LastBottleKeys[((j - 1) % Len(LastBottleKeys)) + 1])]
    \o [j \in 1..Len(LastBottleKeys) |-> LookupFloat(obj, LastBottleKeys[j])]

\* the text fallback of pick_lastbottle_price
FloatOfGroup(m) == IF IsNone(m) THEN None ELSE StrToFloat(Val(Val(m).c[1]))

PickPriceFromText(str) == FloatOfGroup(ReSearch(ReLastBottleNear, str, TRUE))

\* extract.pick_lastbottle_price: an optional amount in cents
pick_lastbottle_price(obj) ==
    FirstSome(<< IF obj.t = "dict" THEN FirstSome(LastBottleLookups(obj), 1) ELSE None,
                 PickPriceFromText(PyStr(obj)) >>, 1)


(***************************************************************************)
(* models.normalize_bottle_size                                            *)
(***************************************************************************)
ReWord(re) == ReCat(<< ReWordBoundary, re, ReWordBoundary >>)
\* \b<number>\s*<unit>\b
ReSized(number, unit) == ReWord(ReCat(<< ReLit(number), ReStar(ReSpace), ReLit(unit) >>))

\* _SIZE_PATTERNS, in order
SIZE_PATTERNS == <<
    [re |-> ReAlt(<< ReSized("187", "ml"), ReWord(ReAlt(<< ReLit("split"), ReLit("piccolo") >>)) >>), ml |-> 187],
    [re |-> ReAlt(<< ReSized("375", "ml"), ReSized("0.375", "l"), ReWord(ReAlt(<< ReLit("half"), ReLit("demi") >>)) >>), ml |-> 375],
    [re |-> ReAlt(<< ReSized("500", "ml"), ReSized("0.5", "l") >>), ml |-> 500],
    [re |-> ReSized("620", "ml"), ml |-> 620],
    [re |-> ReSized("720", "ml"), ml |-> 720],
    [re |-> ReAlt(<< ReSized("750", "ml"), ReSized("0.75", "l") >>), ml |-> 750],
    [re |-> ReAlt(<< ReSized("1", "l"), ReSized("1000", "ml") >>), ml |-> 1000],
    [re |-> ReWord(ReCat(<< ReLit("double"), RePlus(ReSpace), ReLit("magnum"), RePlus(ReSpace),
                            ReLit("3"), ReStar(ReSpace), ReLit("l") >>)), ml |-> 3000],
    [re |-> ReWord(ReCat(<< ReLit("double"), RePlus(ReSpace), ReLit("magnum") >>)), ml |-> 3000],
    [re |-> ReAlt(<< ReSized("3", "l"), ReSized("3000", "ml"), ReWord(ReLit("jeroboam")) >>), ml |-> 3000],
    [re |-> ReAlt(<< ReSized("6", "l"), ReSized("6000", "ml"), ReWord(ReLit("imperial")) >>), ml |-> 6000],
    [re |-> ReAlt(<< ReSized("1.5", "l"), ReSized("1500", "ml"), ReWord(ReLit("magnum")) >>), ml |-> 1500] >>

DEFAULT_BOTTLE_ML == 750

\* \b([0-9]+(?:\.[0-9]+)?)\s*l\b
ReGenericLiters == ReWord(ReCat(<< ReGroup(1, ReNumber), ReStar(ReSpace), ReLit("l") >>))
\* \b([0-9]{2,4})\s*ml\b
ReGenericMl == ReWord(ReCat(<< ReGroup(1, ReRep(ReDigit, 2, 4)), ReStar(ReSpace), ReLit("ml") >>))

\* int(round(float(str) * 1000)) of digits with an optional fraction of at most three digits
LitersToMl(str) ==
    LET dot == IF InChars(".", str) THEN IndexIn(".", str) ELSE Len(str) + 1
        frac == SubSeq(str, dot + 1, Len(str))
    IN  StrToNat(SubSeq(str, 1, dot - 1)) * 1000 + StrToNat(SubSeq(frac \o "000", 1, 3))

\* the size of the last entry that matches, from entry i on
RECURSIVE LastSizePattern(_, _)
LastSizePattern(t, i) ==
    IF i > Len(SIZE_PATTERNS) THEN None
    ELSE IF ~IsNone(LastSizePattern(t, i + 1)) THEN LastSizePattern(t, i + 1)
    ELSE IF ~IsNone(ReSearch(SIZE_PATTERNS[i].re, t, TRUE)) THEN Some(SIZE_PATTERNS[i].ml)
    ELSE None

\* the size of the first entry of _SIZE_PATTERNS, from entry i on, that matches
RECURSIVE FirstSizePattern(_, _)
FirstSizePattern(t, i) ==
    IF i > Len(SIZE_PATTERNS) THEN None
    ELSE IF ~IsNone(ReSearch(SIZE_PATTERNS[i].re, t, TRUE)) THEN Some(SIZE_PATTERNS[i].ml)
    ELSE FirstSizePattern(t, i + 1)

\* a size counts when 100 <= ml <= 6000
PlausibleSize(ml) == IF ml >= 100 /\ ml <= 6000 THEN Some(ml) ELSE None

MlOfMatch(m) == IF IsNone(m) THEN None ELSE PlausibleSize(StrToNat(Val(Val(m).c[1])))

LitersOfMatch(m) == IF IsNone(m) THEN None ELSE PlausibleSize(LitersToMl(Val(Val(m).c[1])))

\* the named sizes, then the generic "<N> L" fallback, then the "<N> ml" one, then the default
SizeOfLowered(t) ==
    Val(FirstSome(<< FirstSizePattern(t, 1),
                     LitersOfMatch(ReSearch(ReGenericLiters, t, FALSE)),
                     MlOfMatch(ReSearch(ReGenericMl, t, FALSE)),
                     Some(DEFAULT_BOTTLE_ML) >>, 1))

\* text is an optional string
normalize_bottle_size(text) ==
    IF IsNone(text) \/ Val(text) = "" THEN DEFAULT_BOTTLE_ML ELSE SizeOfLowered(Lower(Val(text)))


(***************************************************************************)
(* The pydantic models of app/models.py: records, with the constraints     *)
(* their Field declarations state.  Constructing an invalid one raises     *)
(* ValidationError (a ValueError).                                         *)
(***************************************************************************)
\* Deal: price gt 0, list_price None or gt 0
ValidDeal(d) == d.price > 0 /\ (IsNone(d.list_price) \/ Val(d.list_price) > 0)

\* DealDetails: deal_price gt 0
ValidDealDetails(d) == d.deal_price > 0

\* EnrichedDeal built from a DealDetails alone: all six Vivino fields None
BasicEnrichedDeal(dd) ==
    [wine_name |-> dd.wine_name, vintage |-> dd.vintage, bottle_size_ml |-> dd.bottle_size_ml,
     deal_price |-> dd.deal_price, vivino |-> FALSE]

(***************************************************************************)
(* extract.extract_deal_from_json.  The result is [raised, deal]: whether  *)
(* an exception left the function, and the optional Deal it returned.      *)
(***************************************************************************)
Returned(deal) == [raised |-> FALSE, deal |-> deal]
Raised == [raised |-> TRUE, deal |-> None]

PyOr3(obj, a, b, c) == PyOr(PyOr(Get(obj, a), Get(obj, b)), Get(obj, c))

\* the Deal (or None, or the exception) that the fields read from the payload give
DealOfJson(title, url, price, list_price, vintage, region, size_label) ==
    LET deal == [title |-> PyStr(title),
                 price |-> Val(price),
                 list_price |-> list_price,
                 vintage |-> IF vintage.t = "null" THEN None ELSE Some(PyStr(vintage)),
                 region |-> IF region.t = "null" THEN None ELSE Some(PyStr(region)),
                 url |-> PyStr(url),
                 bottle_size_ml |-> IF Truthy(size_label)
                                    THEN normalize_bottle_size(Some(PyStr(title) \o " " \o PyStr(size_label)))
                                    ELSE normalize_bottle_size(Some(PyStr(title)))]
    IN  IF ~Truthy(title) \/ IsNone(price) \/ Val(price) = 0 \/ ~Truthy(url) THEN Returned(None)
        \* normalize_bottle_size(title) calls title.lower(): AttributeError, which the except clause does not name
        ELSE IF ~Truthy(size_label) /\ title.t # "str" THEN Raised
        \* a falsy vintage or a region that is not a string fails the validation of Deal
        ELSE IF (vintage.t \in {"num", "int"} /\ ~Truthy(vintage)) \/ vintage.t = "dict" \/ region.t \notin {"null", "str"}
             THEN Returned(None)
        ELSE IF ~ValidDeal(deal) THEN Returned(None)
        ELSE Returned(Some(deal))

extract_deal_from_json(obj) ==
    DealOfJson(PyOr3(obj, "name", "title", "product_name"),
               PyOr3(obj, "url", "link", "product_url"),
               FirstSome(<< pick_lastbottle_price(obj),
                            to_float(PyOr3(obj, "price", "sale_price", "current_price")) >>, 1),
               to_float(PyOr3(obj, "list_price", "original_price", "msrp")),
               PyOr(Get(obj, "vintage"), Get(obj, "year")),
               PyOr3(obj, "region", "appellation", "origin"),
               PyOr3(obj, "size", "bottle_size", "format"))


(***************************************************************************)
(* The text normalizers of the HTML strategy.                              *)
(***************************************************************************)
ReDigits(n) == ReRep(ReDigit, n, n)

\* vintage_patterns, in order
VINTAGE_PATTERNS == <<
    ReCat(<< ReLit("vintage"), ReStar(ReIn(":" \o SpaceChars)), ReGroup(1, ReDigits(4)) >>),
    ReCat(<< ReLit("<span"), ReStar(ReNotIn(">")), ReLit("class=\"vintage\""), ReStar(ReNotIn(">")),
             ReLit(">"), ReGroup(1, ReDigits(4)), ReLit("</span>") >>),
    ReCat(<< ReLit("class=\"vintage\""), ReStar(ReNotIn(">")), ReLit(">"), ReGroup(1, ReDigits(4)) >>) >>

\* \b(19[5-9]\d|20[0-4]\d)\b
ReBareVintage ==
    ReWord(ReGroup(1, ReAlt(<< ReCat(<< ReLit("19"), ReIn("56789"), ReDigit >>),
                               ReCat(<< ReLit("20"), ReIn("01234"), ReDigit >>) >>)))

MIN_VINTAGE == 1950
MAX_VINTAGE == 2040

\* str(year) when MIN_VINTAGE <= year <= MAX_VINTAGE
PlausibleVintage(year) == IF year >= MIN_VINTAGE /\ year <= MAX_VINTAGE THEN Some(ToString(year)) ELSE None

VintageOfMatch(m) == IF IsNone(m) THEN None ELSE PlausibleVintage(StrToNat(Val(Val(m).c[1])))

\* the year a pattern finds, when it is a plausible vintage
VintageBy(re, text, ic) == VintageOfMatch(ReSearch(re, text, ic))

\* extract._extract_vintage_from_text: an optional string
extract_vintage_from_text(text) ==
    FirstSome([k \in 1..Len(VINTAGE_PATTERNS) |-> VintageBy(VINTAGE_PATTERNS[k], text, TRUE)]
              \o << VintageBy(ReBareVintage, text, FALSE) >>, 1)

\* [\d,]+\.?\d*
ReAmount == ReCat(<< RePlus(ReIn(DigitChars \o ",")), ReOpt(ReLit(".")), ReStar(ReDigit) >>)
\* [$..]\s*[\d,]+\.?\d*
ReCurrencyAmount == ReCat(<< ReIn(CurrencyChars), ReStar(ReSpace), ReAmount >>)
ReDealWord == ReAlt(<< ReLit("deal"), ReLit("sale"), ReLit("offer"), ReLit("special") >>)

\* last_bottle_patterns, in order
LAST_BOTTLE_PATTERNS == <<
    ReCat(<< ReLit("last"), RePlus(ReSpace), ReLit("bottle"), ReStar(ReIn(":" \o SpaceChars)),
             ReOpt(ReLit("$")), ReGroup(1, ReAmount) >>),
    ReCat(<< ReLit("lastbottle"), ReStar(ReIn(":" \o SpaceChars)), ReOpt(ReLit("$")), ReGroup(1, ReAmount) >>),
    ReCat(<< ReLit("last"), ReStar(ReSpace), ReLit("bottle"), ReLazy(ReNotIn(CurrencyChars \o DigitChars), 0, -1),
             ReGroup(1, ReCurrencyAmount) >>) >>

\* deal_patterns, in order
DEAL_PATTERNS == <<
    ReCat(<< ReDealWord, ReStar(ReSpace), ReOpt(ReIn(":-")), ReStar(ReSpace), ReGroup(1, ReCurrencyAmount) >>),
    ReCat(<< ReGroup(1, ReCurrencyAmount), ReStar(ReSpace), ReDealWord >>),
    ReCat(<< ReAlt(<< ReLit("deal-price"), ReLit("sale-price"), ReLit("current-price"), ReLit("price") >>),
             ReStar(ReNonDigit), ReGroup(1, ReCurrencyAmount) >>) >>

\* float(str): None stands for ValueError; in cents
FloatOfParts(int, frac) ==
    IF Len(int \o frac) > 0 /\ \A i \in 1..Len(int \o frac) : IsDigitChar(CharAt(int \o frac, i))
    THEN Some(StrToNat(int) * 100 + StrToNat(SubSeq(frac \o "00", 1, 2)))
    ELSE None

\* the position of the decimal point of str, Len(str) + 1 without one
DotOf(str) == IF InChars(".", str) THEN IndexIn(".", str) ELSE Len(str) + 1

ParseFloat(str) == FloatOfParts(SubSeq(str, 1, DotOf(str) - 1), SubSeq(str, DotOf(str) + 1, Len(str)))

\* a last_bottle_patterns entry: the amount with currency signs, commas and blanks removed
CleanedFloatOfMatch(m) ==
    IF IsNone(m) THEN None ELSE ParseFloat(RemoveChars(Val(Val(m).c[1]), "," \o CurrencyChars \o SpaceChars))

LastBottleBy(re, text) == CleanedFloatOfMatch(ReSearch(re, text, TRUE))

\* the number in a currency amount whose commas were removed
AmountOfMatch(t, m) == IF IsNone(m) THEN None ELSE ParseFloat(Group0(t, m))

AmountIn(t) == AmountOfMatch(t, ReSearch(ReAmount, t, FALSE))

AmountOf(price_text) == AmountIn(RemoveChars(price_text, ","))

\* a deal_patterns entry
AmountOfGroup(m) == IF IsNone(m) THEN None ELSE AmountOf(Val(Val(m).c[1]))

DealPriceBy(re, text) == AmountOfGroup(ReSearch(re, text, TRUE))

\* text.split('\n')
RECURSIVE SplitLines(_)
SplitLines(text) ==
    IF ~InChars("\n", text) THEN << text >>
    ELSE << SubSeq(text, 1, IndexIn("\n", text) - 1) >> \o SplitLines(SubSeq(text, IndexIn("\n", text) + 1, Len(text)))

\* the final fallback: the first amount of a line that mentions neither retail nor best web
LinePriceOf(line) ==
    IF Contains(line, "retail") \/ Contains(line, "best web") THEN None
    ELSE AmountOfGroup(ReSearch(ReGroup(1, ReCurrencyAmount), line, FALSE))

LinePrice(raw) == LinePriceOf(Lower(Strip(raw)))

\* extract._extract_last_bottle_price: an optional amount in cents
LinePrices(lines) == [k \in 1..Len(lines) |-> LinePrice(lines[k])]

extract_last_bottle_price(text) ==
    FirstSome([k \in 1..Len(LAST_BOTTLE_PATTERNS) |-> LastBottleBy(LAST_BOTTLE_PATTERNS[k], text)]
              \o [k \in 1..Len(DEAL_PATTERNS) |-> DealPriceBy(DEAL_PATTERNS[k], text)]
              \o LinePrices(SplitLines(text)), 1)


(***************************************************************************)
(* A page as the two DOM strategies see it.  For extract_deal_details (on  *)
(* the parsed HTML): names[k] is the text of the first element matching    *)
(* name_selectors[k] (None without such an element), headings the texts of *)
(* the elements matching 'h1, h2, h3, .name, .title' in document order,    *)
(* text the text of the document, price_els[k] the text of the first       *)
(* element matching price_selectors[k].  For extract_deal_from_dom (on the *)
(* live page): content is page.content(), and dom_title, dom_price,        *)
(* dom_list_price, dom_vintage, dom_region, dom_size are the text_content  *)
(* of the first element its selector lists match; url is page.url.         *)
(***************************************************************************)
NAME_SELECTORS == << "h1.product-title", "h1.wine-title", "h1.deal-title", ".product-name", ".wine-name", "h1", ".title" >>
PRICE_SELECTORS == << ".deal-price", ".last-bottle-price", ".sale-price", ".current-price", ".price", ".cost" >>

\* the first selector whose element has text
RECURSIVE FirstWithText(_, _)
FirstWithText(texts, k) ==
    IF k > Len(texts) THEN None
    ELSE IF ~IsNone(texts[k]) /\ Val(texts[k]) # "" THEN texts[k] ELSE FirstWithText(texts, k + 1)

\* [a-zA-Z]{3,}
ReThreeLetters == ReRep(ReIn(LowerChars \o UpperChars), 3, -1)

\* the fallback of extract_deal_details: the first heading that looks like a wine name
RECURSIVE FirstWineLike(_, _)
FirstWineLike(headings, k) ==
    IF k > Len(headings) THEN None
    ELSE IF headings[k] # "" /\ ~IsNone(ReSearch(ReThreeLetters, Strip(headings[k]), FALSE))
            /\ Len(Strip(headings[k])) > 5
         THEN Some(Strip(headings[k]))
         ELSE FirstWineLike(headings, k + 1)

\* retail|best\s*web
ReCompetitor == ReAlt(<< ReLit("retail"), ReCat(<< ReLit("best"), ReStar(ReSpace), ReLit("web") >>) >>)

\* a truthy amount
NonZero(found) == IF ~IsNone(found) /\ Val(found) # 0 THEN found ELSE None

\* the price of an element with text that names no competitor's price
ElementPrice(el) ==
    IF ~IsNone(el) /\ Val(el) # "" /\ IsNone(ReSearch(ReCompetitor, Val(el), TRUE))
    THEN NonZero(extract_last_bottle_price(Val(el))) ELSE None

\* the secondary pass of extract_deal_details over the price elements
RECURSIVE FirstElementPrice(_, _)
FirstElementPrice(price_els, k) ==
    IF k > Len(price_els) THEN None
    ELSE FirstSome(<< ElementPrice(price_els[k]), FirstElementPrice(price_els, k + 1) >>, 1)

\* extract.extract_deal_details: an optional DealDetails
\* the stripped text of the first name element, when it is not blank
StrippedName(first) == IF ~IsNone(first) /\ Strip(Val(first)) # "" THEN Some(Strip(Val(first))) ELSE None

\* the DealDetails (or None) that the fields read from the page give
DetailsOfPage(page, wine_name, vintage, deal_price) ==
    LET details == [wine_name |-> Val(wine_name),
                    vintage |-> IF IsNone(vintage) THEN None ELSE Some(StrToNat(Val(vintage))),
                    bottle_size_ml |-> normalize_bottle_size(Some(page.text)),
                    deal_price |-> Val(deal_price)]
    IN  IF IsNone(wine_name) \/ IsNone(deal_price) THEN None
        \* ValidationError, caught by the function's except clause
        ELSE IF ~ValidDealDetails(details) THEN None
        ELSE Some(details)

extract_deal_details(page) ==
    DetailsOfPage(page,
                  FirstSome(<< StrippedName(FirstWithText(page.names, 1)), FirstWineLike(page.headings, 1) >>, 1),
                  extract_vintage_from_text(page.text),
                  FirstSome(<< extract_last_bottle_price(page.text), FirstElementPrice(page.price_els, 1) >>, 1))

\* \b(19|20)\d{2}\b
ReCenturyYear == ReWord(ReCat(<< ReAlt(<< ReLit("19"), ReLit("20") >>), ReDigits(2) >>))

\* extract.extract_deal_from_dom: an optional Deal
\* _to_float of the text of an element, when there is one with text
ElementFloat(el) == IF IsNone(el) \/ Val(el) = "" THEN None ELSE StrToFloat(Val(el))

\* the Deal (or None) that the fields read from the live page give
DealOfDom(page, title, price, list_price, year) ==
    LET deal == [title |-> title,
                 price |-> Val(price),
                 list_price |-> list_price,
                 vintage |-> IF IsNone(year) THEN None ELSE Some(Group0(Val(page.dom_vintage), year)),
                 region |-> IF IsNone(page.dom_region) \/ Val(page.dom_region) = "" THEN None
                            ELSE Some(Strip(Val(page.dom_region))),
                 url |-> page.url,
                 bottle_size_ml |-> IF ~IsNone(page.dom_size) /\ Val(page.dom_size) # ""
                                    THEN normalize_bottle_size(Some(title \o " " \o Strip(Val(page.dom_size))))
                                    ELSE normalize_bottle_size(Some(title))]
    IN  IF IsNone(page.dom_title) \/ Val(page.dom_title) = "" THEN None
        ELSE IF IsNone(price) THEN None
        \* ValidationError, caught by the function's except clause
        ELSE IF ~ValidDeal(deal) THEN None
        ELSE Some(deal)

extract_deal_from_dom(page) ==
    DealOfDom(page,
              IF IsNone(page.dom_title) THEN "" ELSE Strip(Val(page.dom_title)),
              FirstSome(<< pick_lastbottle_price(JStr(page.content)), ElementFloat(page.dom_price) >>, 1),
              ElementFloat(page.dom_list_price),
              IF IsNone(page.dom_vintage) THEN None ELSE ReSearch(ReCenturyYear, Val(page.dom_vintage), FALSE))


(***************************************************************************)
(* extract.deal_key: the deduplication key of (title, vintage, price).     *)
(***************************************************************************)
AccentedChars == "àáâãäåçèéêëìíîïñòóôõöùúûüýÿ"
BaseChars     == "aaaaaaceeeeiiiinooooouuuuyy"

\* unicodedata.normalize('NFD', .) followed by dropping the combining marks (category Mn)
UnaccentAt(s, i) ==
    IF InChars(CharAt(s, i), AccentedChars)
    THEN CharAt(BaseChars, IndexIn(CharAt(s, i), AccentedChars))
    ELSE CharAt(s, i)

StripAccents(s) == Concat([i \in 1..Len(s) |-> UnaccentAt(s, i)], 1, Len(s))

\* re.sub(r'[^\w\s]', '', s)
WordOrSpaceAt(s, i) == IF IsWordChar(CharAt(s, i)) \/ IsSpaceChar(CharAt(s, i)) THEN CharAt(s, i) ELSE ""

RemovePunctuation(s) == Concat([i \in 1..Len(s) |-> WordOrSpaceAt(s, i)], 1, Len(s))

\* re.sub(r'\s+', ' ', s)
\* a run of whitespace contributes one blank, at its first character
CollapsedAt(s, i) ==
    IF ~IsSpaceChar(CharAt(s, i)) THEN CharAt(s, i)
    ELSE IF i > 1 /\ IsSpaceChar(CharAt(s, i - 1)) THEN "" ELSE " "

CollapseSpaces(s) == Concat([i \in 1..Len(s) |-> CollapsedAt(s, i)], 1, Len(s))

NormalizeTitle(title) == CollapseSpaces(RemovePunctuation(StripAccents(Strip(Lower(title)))))

\* f"{price:.2f}" of an amount given in cents
PriceStr(cents) ==
    ToString(cents \div 100) \o "." \o ToString((cents % 100) \div 10) \o ToString(cents % 10)

\* vintage is an optional string, price an amount in cents
deal_key(title, vintage, price) ==
    NormalizeTitle(title) \o "|" \o (IF IsNone(vintage) \/ Val(vintage) = "" THEN "unknown" ELSE Val(vintage))
        \o "|" \o PriceStr(price)

(***************************************************************************)
(* Inputs: the responses and pages the site can serve.                     *)
(***************************************************************************)
GENERIC_TITLE == "Last Bottle - Your Daily Purveyor of Fine Wine"
DEAL_URL == "https://www.lastbottlewines.com/"

\* config.GENERIC_MARKERS and config.is_generic_title.  The second marker of the source has
\* U+201C as the third character of its dash; a string here cannot hold it and ' stands for it
GENERIC_MARKERS ==
    << "last bottle - your daily purveyor of fine wine", "last bottle â€' your daily purveyor of fine wine" >>

is_generic_title(title) ==
    \/ Strip(Lower(title)) = ""
    \/ \E k \in 1..Len(GENERIC_MARKERS) : Contains(Strip(Lower(title)), GENERIC_MARKERS[k])

Dict(kvs) == JDict(kvs)

\* JSON payloads of deal responses
NetA       == Dict(<< <<"name", JStr("Wine A")>>, <<"price", JNum(2999)>>, <<"url", JStr(DEAL_URL)>> >>)
NetCheap   == Dict(<< <<"name", JStr("Wine B")>>, <<"vintage", JStr("2020")>>,
                      <<"lastBottlePrice", JStr("2.50")>>, <<"url", JStr(DEAL_URL)>> >>)
NetGeneric == Dict(<< <<"title", JStr(GENERIC_TITLE)>>, <<"price", JNum(1999)>>, <<"url", JStr(DEAL_URL)>> >>)
NetPunct   == Dict(<< <<"name", JStr("!!")>>, <<"price", JInt(12)>>, <<"url", JStr(DEAL_URL)>> >>)
NetNoPrice == Dict(<< <<"name", JStr("Wine A")>>, <<"price", JStr("n/a")>>, <<"url", JStr(DEAL_URL)>> >>)

PayloadNames == {"NetA", "NetCheap", "NetGeneric", "NetPunct", "NetNoPrice"}
Payload(name) ==
    CASE name = "NetA" -> NetA
      [] name = "NetCheap" -> NetCheap
      [] name = "NetGeneric" -> NetGeneric
      [] name = "NetPunct" -> NetPunct
      [] name = "NetNoPrice" -> NetNoPrice

NoNames == [k \in 1..Len(NAME_SELECTORS) |-> None]
NoPriceEls == [k \in 1..Len(PRICE_SELECTORS) |-> None]

\* a page whose only heading is an h1 and whose text is the heading and the body
PlainPage(h1, body, content) ==
    [names |-> [NoNames EXCEPT ![6] = Some(h1)], headings |-> << h1 >>, text |-> h1 \o "\n" \o body,
     price_els |-> NoPriceEls, content |-> content,
     dom_title |-> Some(h1), dom_price |-> None, dom_list_price |-> None, dom_vintage |-> None,
     dom_region |-> None, dom_size |-> None, url |-> DEAL_URL]

PageA == PlainPage("Wine A", "Retail $45.00\nLast Bottle $29.99",
                   "<h1>Wine A</h1><p>Retail $45.00</p><p>Last Bottle $29.99</p>")
PageCheap == PlainPage("Wine B", "Vintage: 2020\nLast Bottle $2.50",
                       "<h1>Wine B</h1><p>Vintage: 2020</p><p>Last Bottle $2.50</p>")
PageGeneric == PlainPage(GENERIC_TITLE, "Today $19.99", "<h1>" \o GENERIC_TITLE \o "</h1><p>Today $19.99</p>")
\* the offer price stands in an attribute only: the text of the document has no price
PageAttr == PlainPage("Wine A", "", "<h1>Wine A</h1><div data-offer=\"last bottle $29.99\"></div>")
PageEmpty == [PlainPage("", "", "<html></html>") EXCEPT !.names = NoNames, !.headings = << >>, !.dom_title = None]

PageNames == {"PageA", "PageCheap", "PageGeneric", "PageAttr", "PageEmpty"}
Page(name) ==
    CASE name = "PageA" -> PageA
      [] name = "PageCheap" -> PageCheap
      [] name = "PageGeneric" -> PageGeneric
      [] name = "PageAttr" -> PageAttr
      [] name = "PageEmpty" -> PageEmpty

\* what the program extracts from a response and from a page
NetInput(name) == [name |-> name, got |-> extract_deal_from_json(Payload(name))]
PageInput(name) == [name |-> name, html |-> extract_deal_details(Page(name)), dom |-> extract_deal_from_dom(Page(name))]

(***************************************************************************)
(* Bounds of the model.  Time is the value of time.time(), in milliseconds *)
(* since the start of a behaviour.                                         *)
(***************************************************************************)
MaxObs == 2
MaxDomObs == 3
MaxTime == 400000
TimeSteps == {100000, 300000}

\* what the site does while a behaviour lasts: the JSON of its deal responses, its page, how
\* many observations it causes, and whether building a key fails (as when deal_key is replaced
\* by a function that raises).  general: sites with deal responses and a page; dom: sites
\* whose responses carry no deal, so that the watch loop is the only source of observations
\* a site names the payload of its deal responses and its page
Site(p, pg, failure, limit) == [net |-> p, page |-> pg, failure |-> failure, limit |-> limit]

\* what the program extracts from each payload and each page
NetInputs == { NetInput(n) : n \in PayloadNames }
PageInputs == { PageInput(n) : n \in PageNames }
NetOf(s) == CHOOSE r \in NetInputs : r.name = s.net
PageOf(s) == CHOOSE r \in PageInputs : r.name = s.page

\* the (responses, page, failure) of the general sites and of the sites of the watch loop alone
SiteChoices ==
    { << "NetA", "PageA", "none" >>, << "NetA", "PageAttr", "none" >>, << "NetCheap", "PageA", "none" >>,
      << "NetGeneric", "PageCheap", "none" >>, << "NetPunct", "PageGeneric", "none" >>,
      << "NetNoPrice", "PageEmpty", "none" >>, << "NetA", "PageA", "Exception" >> }
DomSiteChoices ==
    { << "NetNoPrice", pg, "none" >> : pg \in PageNames } \cup { << "NetNoPrice", "PageA", "Exception" >> }

Sites == { Site(c[1], c[2], c[3], MaxObs) : c \in SiteChoices }
DomSites == { Site(c[1], c[2], c[3], MaxDomObs) : c \in DomSiteChoices }

(***************************************************************************)
(* watcher.DealWatcher and main.WineDealScanner: constants and the pure    *)
(* parts of the pipeline.                                                  *)
(***************************************************************************)
DEDUP_WINDOW_SECONDS == 300
SEEN_DEALS_LIMIT == 100
DEAL_DEDUP_MINUTES == 5

\* `except Exception' catches every failure but a cancellation
IsException(kind) == kind \in {"Exception", "TimeoutError", "ValidationError"}

\* no handler at all
CatchesNothing(kind) == FALSE

\* a handler that leaves the time limit of asyncio.timeout uncaught
CatchesAllButTimeout(kind) == IsException(kind) /\ kind # "TimeoutError"

\* the handler around the enrichment, around the notification, and around the whole pipeline
EnrichmentCatches(kind) == IsException(kind)
NotificationCatches(kind) == IsException(kind)
PipelineCatches(kind) == IsException(kind)

\* the comparison of the window made inclusive
IsRecentDuplicateInclusive(seen, key, t) ==
    key \in DOMAIN seen /\ t - seen[key] <= DEDUP_WINDOW_SECONDS * 1000

\* `deal_key in self.seen_deals' and seen less than the window ago
IsRecentDuplicate(seen, key, t) ==
    key \in DOMAIN seen /\ t - seen[key] < DEDUP_WINDOW_SECONDS * 1000

\* self.seen_deals[deal_key] = current_time
RecordSeen(seen, key, t) == [k \in DOMAIN seen \cup {key} |-> IF k = key THEN t ELSE seen[k]]

\* the clean-up of seen_deals after a record
CleanupSeenDeals(seen, t) ==
    IF Cardinality(DOMAIN seen) > SEEN_DEALS_LIMIT
    THEN LET cutoff == t - (DEDUP_WINDOW_SECONDS * 2) * 1000
         IN  [k \in {j \in DOMAIN seen : seen[j] > cutoff} |-> seen[k]]
    ELSE seen

\* the DealDetails _safe_on_new_deal builds from a Deal
ToDealDetails(deal) ==
    [wine_name |-> deal.title,
     vintage |-> IF ~IsNone(deal.vintage) /\ Val(deal.vintage) # "" /\ IsDigitStr(Val(deal.vintage))
                 THEN Some(StrToNat(Val(deal.vintage))) ELSE None,
     bottle_size_ml |-> deal.bottle_size_ml,
     deal_price |-> deal.price]

\* deal_key tabulated over the arguments the inputs can give it
KeyTitles == {"Wine A", "Wine B", GENERIC_TITLE, "!!"}
KeyVintages == {None, Some("2020")}
KeyPrices == {2999, 250, 1999, 1200}
DealKeyTable == { [of |-> a, key |-> deal_key(a[1], a[2], a[3])] : a \in KeyTitles \X KeyVintages \X KeyPrices }
KeyOf(title, vintage, price) == (CHOOSE r \in DealKeyTable : r.of = << title, vintage, price >>).key

\* the key of a DealDetails as _process_deal_details builds it
DealDetailsKey(dd) ==
    KeyOf(dd.wine_name,
             IF IsNone(dd.vintage) \/ Val(dd.vintage) = 0 THEN None ELSE Some(ToString(Val(dd.vintage))),
             dd.deal_price)

\* DealDeduplicator.is_duplicate: [dup: the answer, seen: the map afterwards]
is_duplicate(seen, deal, t) ==
    LET key == KeyOf(deal.title, deal.vintage, deal.price)
        cutoff == t - DEAL_DEDUP_MINUTES * 60 * 1000
        kept == [k \in {j \in DOMAIN seen : ~(seen[j] < cutoff)} |-> seen[k]]
    IN  IF key \in DOMAIN kept THEN [dup |-> TRUE, seen |-> kept]
        ELSE [dup |-> FALSE, seen |-> RecordSeen(kept, key, t)]

\* what the notifier receives from the pipeline: an EnrichedDeal
EnrichedWith(dd, outcome) == [BasicEnrichedDeal(dd) EXCEPT !.vivino = (outcome = "data")]

(***************************************************************************)
(* The state.                                                              *)
(***************************************************************************)
VARIABLES
    now,                 \* time.time()
    running,             \* DealWatcher.running
    seen_deals,          \* DealWatcher.seen_deals: key -> time recorded
    last_deal_key,       \* DealWatcher.last_deal_key
    last_heartbeat,      \* DealWatcher.last_heartbeat
    last_dom_check_time, \* DealWatcher.last_dom_check_time
    check_requested,     \* window.dealCheckRequested of the page
    dd_seen,             \* DealDeduplicator.seen_deals of the scanner
    tasks,               \* the watch task and the response-handler task: where each stands
    obs_log,             \* every call of _process_deal_details so far
    notifications,       \* every call of a notifier so far
    site,                \* what the site serves
    handles,             \* DealWatcher.page, .context and .browser: whether each is set
    scanner,             \* WineDealScanner: running, _stop_event, and where run() stands
    blocked_requests_count \* DealWatcher.blocked_requests_count

vars == << now, running, seen_deals, last_deal_key, last_heartbeat, last_dom_check_time,
           check_requested, dd_seen, tasks, obs_log, notifications, site, handles, scanner, blocked_requests_count >>

\* page, context and browser as __init__ leaves them (None), and as _setup_browser does
NoHandles == [page |-> FALSE, context |-> FALSE, browser |-> FALSE]
OpenHandles == [page |-> TRUE, context |-> TRUE, browser |-> TRUE]

\* the scanner as __init__ leaves it, in run() waiting for the watch task or the stop event,
\* and after run() has returned on a shutdown
\* (cancelled: where the watch task stood when run() cancelled it, if it did)
Scanner(pc, on, stop) == [pc |-> pc, running |-> on, stop |-> stop, cancelled |-> None]
NewScanner == Scanner("new", FALSE, FALSE)
RunningScanner == Scanner("waiting", TRUE, FALSE)
StoppedScanner == Scanner("returned", FALSE, TRUE)

Handlers == {"response"}
IdlePcs == {"start", "iterate", "error_sleep", "stopped", "idle"}
TaskIds == {"watch"} \cup Handlers

EmptyMap == [k \in {} |-> 0]
\* 0.0 on the clock of time.time(), which lies far before the construction of the watcher
LongAgo == -1000000
Task(pc, obs, deal) == [pc |-> pc, obs |-> obs, deal |-> deal]
Fresh(pc) == Task(pc, 0, None)

Failures == {"none", "Exception"}

\* the same with the comparison made inclusive: 60 s exactly does not suffice
log_heartbeat_after(last, t) == IF t - last <= 60000 THEN last ELSE t

\* _log_heartbeat: the value of last_heartbeat after a call at time t
log_heartbeat(last, t) == IF t - last < 60000 THEN last ELSE t

\* the call a task made returns.  For the handler the task ends.  For the watch task
\* _check_dom_for_deals has returned to the loop, which runs _log_heartbeat and goes to sleep:
\* for 1 s, or for 5 s when the heartbeat raised
Return(tk) ==
    IF tk = "watch"
    THEN \E failure \in Failures :
            IF failure = "none"
            THEN /\ last_heartbeat' = log_heartbeat(last_heartbeat, now)
                 /\ tasks' = [tasks EXCEPT ![tk] = Fresh("iterate")]
            ELSE /\ UNCHANGED last_heartbeat
                 /\ tasks' = [tasks EXCEPT ![tk] = Fresh(IF IsException(failure) THEN "error_sleep" ELSE "stopped")]
    ELSE /\ tasks' = [tasks EXCEPT ![tk] = Fresh("idle")]
         /\ UNCHANGED last_heartbeat

Init ==
    /\ now = 0
    /\ running = FALSE
    /\ seen_deals = EmptyMap
    /\ last_deal_key = None
    /\ last_heartbeat = 0
    /\ last_dom_check_time = LongAgo
    /\ check_requested = FALSE
    /\ dd_seen = EmptyMap
    /\ tasks = [tk \in TaskIds |-> Fresh(IF tk = "watch" THEN "start" ELSE "idle")]
    /\ obs_log = << >>
    /\ notifications = << >>
    /\ site \in Sites
    /\ handles = NoHandles
    /\ scanner = RunningScanner
    /\ blocked_requests_count = 0

(***************************************************************************)
(* The pipeline: DealWatcher._process_deal_details, _safe_on_new_deal and  *)
(* the scanner's process_deal behind it.  A step runs from one await to    *)
(* the next, as the event loop runs a task.                                *)
(***************************************************************************)
\* an entry of obs_log: a call of _process_deal_details by task tk, with what became of it.
\* legacy: the Deal of _safe_on_new_deal when it made the call, so that the legacy callback follows
Observation(tk, src, dd, legacy, key, new, raised, enrich) ==
    [task |-> tk, src |-> src, dd |-> dd, legacy |-> legacy, key |-> key, t |-> now, new |-> new,
     raised |-> raised, enrich |-> enrich, lookup |-> "none"]

Notification(via, obs, name, vintage, size, price, vivino) ==
    [via |-> via, obs |-> obs, wine_name |-> name, vintage |-> vintage, bottle_size_ml |-> size,
     price |-> price, vivino |-> vivino]

\* _process_deal_details has returned to tk for observation n: _safe_on_new_deal goes on to the
\* legacy callback, process_deal, which runs to its first await
AfterPipeline(tk, n, legacy) ==
    IF IsNone(legacy)
    THEN /\ Return(tk)
         /\ UNCHANGED dd_seen
    ELSE LET r == is_duplicate(dd_seen, Val(legacy), now)
         IN  /\ dd_seen' = r.seen
             /\ IF r.dup THEN Return(tk)
                ELSE tasks' = [tasks EXCEPT ![tk] = Task("cb_lookup", n, legacy)] /\ UNCHANGED last_heartbeat

\* _process_deal_details from its call to its first await or its return.  failure is the
\* exception key building raises, or "none"
BeginPipeline(tk, src, dd, legacy, failure) ==
    LET n == Len(obs_log) + 1
    IN  IF failure # "none"
        THEN /\ obs_log' = Append(obs_log, Observation(tk, src, dd, legacy, None, FALSE, ~PipelineCatches(failure), "none"))
             /\ UNCHANGED << seen_deals, last_deal_key >>
             /\ IF PipelineCatches(failure) THEN AfterPipeline(tk, n, legacy)
                ELSE Return(tk) /\ UNCHANGED dd_seen
        ELSE LET key == DealDetailsKey(dd)
             IN  /\ last_deal_key' = Some(key)
                 /\ IF IsRecentDuplicate(seen_deals, key, now)
                    THEN /\ obs_log' = Append(obs_log, Observation(tk, src, dd, legacy, Some(key), FALSE, FALSE, "none"))
                         /\ UNCHANGED seen_deals
                         /\ AfterPipeline(tk, n, legacy)
                    ELSE /\ seen_deals' = CleanupSeenDeals(RecordSeen(seen_deals, key, now), now)
                         /\ obs_log' = Append(obs_log, Observation(tk, src, dd, legacy, Some(key), TRUE, FALSE, "pending"))
                         /\ tasks' = [tasks EXCEPT ![tk] = Task("enrich", n, legacy)]
                         /\ UNCHANGED << dd_seen, last_heartbeat >>

\* _safe_on_new_deal from its call on
SafeOnNewDeal(tk, src, deal, failure) ==
    LET dd == ToDealDetails(deal)
    IN  IF ValidDealDetails(dd) THEN BeginPipeline(tk, src, dd, Some(deal), failure)
        ELSE /\ Return(tk)
             /\ UNCHANGED << seen_deals, last_deal_key, obs_log, dd_seen >>

EnrichOutcomes == {"data", "nodata", "Exception", "TimeoutError"}
LookupOutcomes == {"data", "nodata", "Exception"}

\* the enrichment ends (with or without Vivino data, with an exception, or at its 15 s limit) and
\* the pipeline calls the notifier
EnrichDone(tk, outcome) ==
    /\ tasks[tk].pc = "enrich"
    /\ LET n == tasks[tk].obs
           dd == obs_log[n].dd
           failed == outcome \in {"Exception", "TimeoutError"}
       IN  /\ obs_log' = [obs_log EXCEPT ![n].enrich = outcome,
                                         ![n].raised = failed /\ ~EnrichmentCatches(outcome) /\ ~PipelineCatches(outcome)]
           /\ IF failed /\ ~EnrichmentCatches(outcome)
              THEN /\ UNCHANGED notifications
                   /\ IF PipelineCatches(outcome) THEN AfterPipeline(tk, n, tasks[tk].deal)
                      ELSE Return(tk) /\ UNCHANGED dd_seen
              ELSE LET e == EnrichedWith(dd, outcome)
                   IN  /\ notifications' = Append(notifications,
                              Notification("pipeline", n, e.wine_name, e.vintage, e.bottle_size_ml, e.deal_price, e.vivino))
                       /\ tasks' = [tasks EXCEPT ![tk].pc = "notify"]
                       /\ UNCHANGED << dd_seen, last_heartbeat >>
    /\ UNCHANGED << now, running, seen_deals, last_deal_key, last_dom_check_time, check_requested, site, handles, scanner, blocked_requests_count >>

NotifyOutcomes == {"sent", "not_sent", "Exception", "TimeoutError"}

\* send_telegram_message ends (sent, not sent, with an exception, or at its 15 s limit): the
\* pipeline returns
NotifyDone(tk, outcome) ==
    /\ tasks[tk].pc = "notify"
    /\ obs_log' = [obs_log EXCEPT ![tasks[tk].obs].raised = IsException(outcome) /\ ~NotificationCatches(outcome)
                                                              /\ ~PipelineCatches(outcome)]
    /\ IF IsException(outcome) /\ ~NotificationCatches(outcome) /\ ~PipelineCatches(outcome)
       THEN Return(tk) /\ UNCHANGED dd_seen
       ELSE AfterPipeline(tk, tasks[tk].obs, tasks[tk].deal)
    /\ UNCHANGED << now, running, seen_deals, last_deal_key, last_dom_check_time,
                    check_requested, notifications, site, handles, scanner, blocked_requests_count >>

\* process_deal: quick_lookup ends and telegram_send is called
CallbackLookupDone(tk, outcome) ==
    /\ tasks[tk].pc = "cb_lookup"
    /\ LET deal == Val(tasks[tk].deal)
       IN  notifications' = Append(notifications,
               Notification("legacy", tasks[tk].obs, deal.title, deal.vintage, deal.bottle_size_ml,
                            deal.price, outcome = "data"))
    /\ obs_log' = [obs_log EXCEPT ![tasks[tk].obs].lookup = outcome]
    /\ tasks' = [tasks EXCEPT ![tk].pc = "cb_send"]
    /\ UNCHANGED << now, running, seen_deals, last_deal_key, last_heartbeat, last_dom_check_time,
                    check_requested, dd_seen, site, handles, scanner, blocked_requests_count >>

\* process_deal: telegram_send ends and the callback returns
CallbackSendDone(tk) ==
    /\ tasks[tk].pc = "cb_send"
    /\ Return(tk)
    /\ UNCHANGED << now, running, seen_deals, last_deal_key, last_dom_check_time,
                    check_requested, dd_seen, obs_log, notifications, site, handles, scanner, blocked_requests_count >>

\* the 10 s limit _safe_on_new_deal puts on the callback ends it during the Vivino lookup
CallbackTimeout(tk) ==
    /\ tasks[tk].pc = "cb_lookup"
    /\ obs_log' = [obs_log EXCEPT ![tasks[tk].obs].lookup = "TimeoutError"]
    /\ Return(tk)
    /\ UNCHANGED << now, running, seen_deals, last_deal_key, last_dom_check_time,
                    check_requested, dd_seen, notifications, site, handles, scanner, blocked_requests_count >>

(***************************************************************************)
(* The two detection strategies and the watch loop.                        *)
(***************************************************************************)
\* DealWatcher.watch up to the loop
StartWatch ==
    /\ tasks["watch"].pc = "start"
    /\ scanner.pc = "waiting"
    /\ handles = NoHandles
    /\ running' = TRUE
    /\ handles' = OpenHandles
    /\ tasks' = [tasks EXCEPT !["watch"] = Fresh("iterate")]
    /\ UNCHANGED blocked_requests_count
    /\ UNCHANGED << now, seen_deals, last_deal_key, last_heartbeat, last_dom_check_time,
                    check_requested, dd_seen, obs_log, notifications, site, scanner >>

\* the MutationObserver of the page asks for a check
PageMutation ==
    /\ running
    /\ ~check_requested
    /\ Len(obs_log) < site.limit
    /\ check_requested' = TRUE
    /\ UNCHANGED << now, running, seen_deals, last_deal_key, last_heartbeat, last_dom_check_time,
                    dd_seen, tasks, obs_log, notifications, site, handles, scanner, blocked_requests_count >>

\* response_handler and _handle_network_response for a deal response whose JSON yields a deal
\* (for any other response the handler changes nothing)
HandleNetworkResponse(h, got) ==
    /\ ~got.raised
    /\ ~IsNone(got.deal)
    /\ SafeOnNewDeal(h, "network", Val(got.deal), site.failure)

NetResponse(h) ==
    /\ running
    /\ tasks[h].pc = "idle"
    /\ Len(obs_log) + (IF check_requested THEN 1 ELSE 0) < site.limit
    /\ HandleNetworkResponse(h, NetOf(site).got)
    /\ UNCHANGED << now, running, last_dom_check_time, check_requested, notifications, site, handles, scanner, blocked_requests_count >>

\* the check without the debounce
CheckDomUndebounced(found) ==
    IF ~check_requested
    THEN /\ Return("watch")
         /\ UNCHANGED << seen_deals, last_deal_key, last_dom_check_time, check_requested, dd_seen, obs_log >>
    ELSE /\ check_requested' = FALSE
         /\ last_dom_check_time' = now
         /\ IF ~IsNone(found.html)
            THEN BeginPipeline("watch", "dom", Val(found.html), None, site.failure)
            ELSE IF ~IsNone(found.dom)
                 THEN SafeOnNewDeal("watch", "dom", Val(found.dom), site.failure)
                 ELSE /\ Return("watch")
                      /\ UNCHANGED << seen_deals, last_deal_key, dd_seen, obs_log >>

\* the check with the two extractions in the other order: the legacy extraction first
CheckDomLegacyFirst(found) ==
    IF ~check_requested \/ now - last_dom_check_time < 400
    THEN /\ Return("watch")
         /\ UNCHANGED << seen_deals, last_deal_key, last_dom_check_time, check_requested, dd_seen, obs_log >>
    ELSE /\ check_requested' = FALSE
         /\ last_dom_check_time' = now
         /\ IF ~IsNone(found.dom)
            THEN SafeOnNewDeal("watch", "dom", Val(found.dom), site.failure)
            ELSE IF ~IsNone(found.html)
                 THEN BeginPipeline("watch", "dom", Val(found.html), None, site.failure)
                 ELSE /\ Return("watch")
                      /\ UNCHANGED << seen_deals, last_deal_key, dd_seen, obs_log >>

\* an iteration of the loop begins (at the start, or when the sleep of the iteration before has
\* ended): _check_dom_for_deals from its call to the first await of the pipeline, or to its return
\* found: what the two extractions find on the page
CheckDomForDeals(found) ==
    IF ~check_requested \/ now - last_dom_check_time < 400
    THEN /\ Return("watch")
         /\ UNCHANGED << seen_deals, last_deal_key, last_dom_check_time, check_requested, dd_seen, obs_log >>
    ELSE /\ check_requested' = FALSE
         /\ last_dom_check_time' = now
         /\ IF ~IsNone(found.html)
            THEN BeginPipeline("watch", "dom", Val(found.html), None, site.failure)
            ELSE IF ~IsNone(found.dom)
                 THEN SafeOnNewDeal("watch", "dom", Val(found.dom), site.failure)
                 ELSE /\ Return("watch")
                      /\ UNCHANGED << seen_deals, last_deal_key, dd_seen, obs_log >>

DomCheck ==
    /\ tasks["watch"].pc \in {"iterate", "error_sleep"}
    /\ UNCHANGED << now, running, notifications, site, handles, scanner, blocked_requests_count >>
    /\ CheckDomForDeals(PageOf(site))

\* the scanner cancels the watch task: CancelledError at the await the task stands at, the loop
\* breaks, and _cleanup_browser clears `running'
Cancel ==
    /\ tasks["watch"].pc \notin {"start", "stopped"}
    /\ tasks' = [tasks EXCEPT !["watch"] = Fresh("stopped")]
    /\ running' = FALSE
    /\ handles' = NoHandles
    /\ scanner' = StoppedScanner
    /\ UNCHANGED blocked_requests_count
    /\ UNCHANGED << now, seen_deals, last_deal_key, last_heartbeat, last_dom_check_time,
                    check_requested, dd_seen, obs_log, notifications, site >>

\* time passes.  A step of time is longer than the 15 s + 15 s + 10 s the time limits leave a
\* task between the start of the pipeline and the return of the callback, so no task stands in
\* the pipeline while one passes
Tick(d) ==
    /\ now + d <= MaxTime
    /\ \A tk \in TaskIds : tasks[tk].pc \in IdlePcs
    /\ now' = now + d
    /\ UNCHANGED << running, seen_deals, last_deal_key, last_heartbeat, last_dom_check_time,
                    check_requested, dd_seen, tasks, obs_log, notifications, site, handles, scanner, blocked_requests_count >>

Next ==
    \/ StartWatch
    \/ PageMutation
    \/ \E h \in Handlers : NetResponse(h)
    \/ DomCheck
    \/ \E tk \in TaskIds, o \in EnrichOutcomes : EnrichDone(tk, o)
    \/ \E tk \in TaskIds, o \in NotifyOutcomes : NotifyDone(tk, o)
    \/ \E tk \in TaskIds, o \in LookupOutcomes : CallbackLookupDone(tk, o)
    \/ \E tk \in TaskIds : CallbackSendDone(tk)
    \/ \E tk \in TaskIds : CallbackTimeout(tk)
    \/ Cancel
    \/ \E d \in TimeSteps : Tick(d)

Spec == Init /\ [][Next]_vars

(***************************************************************************)
(* The watch loop alone: a site whose responses carry no deal, and no      *)
(* shutdown.                                                               *)
(***************************************************************************)
InitDom ==
    /\ now = 0
    /\ running = FALSE
    /\ seen_deals = EmptyMap
    /\ last_deal_key = None
    /\ last_heartbeat = 0
    /\ last_dom_check_time = LongAgo
    /\ check_requested = FALSE
    /\ dd_seen = EmptyMap
    /\ tasks = [tk \in TaskIds |-> Fresh(IF tk = "watch" THEN "start" ELSE "idle")]
    /\ obs_log = << >>
    /\ notifications = << >>
    /\ site \in DomSites
    /\ handles = NoHandles
    /\ scanner = RunningScanner
    /\ blocked_requests_count = 0

NextDom ==
    \/ StartWatch
    \/ PageMutation
    \/ DomCheck
    \/ \E o \in EnrichOutcomes : EnrichDone("watch", o)
    \/ \E o \in NotifyOutcomes : NotifyDone("watch", o)
    \/ \E o \in LookupOutcomes : CallbackLookupDone("watch", o)
    \/ CallbackSendDone("watch")
    \/ CallbackTimeout("watch")
    \/ \E d \in TimeSteps : Tick(d)

SpecDom == InitDom /\ [][NextDom]_vars

(***************************************************************************)
(* Properties of the deduplication of DealWatcher._process_deal_details.   *)
(***************************************************************************)
Window == DEDUP_WINDOW_SECONDS * 1000

\* the observations i < j have the same key, and no observation between them has it
Consecutive(i, j) ==
    /\ i < j
    /\ ~IsNone(obs_log[i].key)
    /\ obs_log[j].key = obs_log[i].key
    /\ \A k \in (i + 1)..(j - 1) : obs_log[k].key # obs_log[i].key


PipelineNotified(n) == \E k \in 1..Len(notifications) : notifications[k].via = "pipeline" /\ notifications[k].obs = n

\* observation n was a duplicate: not enriched, not notified
Suppressed(n) == ~obs_log[n].new /\ obs_log[n].enrich = "none" /\ ~PipelineNotified(n)

\* observation n was new: enriched, and notified once the enrichment has ended
TreatedAsNew(n) == obs_log[n].new /\ obs_log[n].enrich # "none" /\ (obs_log[n].enrich # "pending" => PipelineNotified(n))

\* C1 as stated: of two observations of one key with no other observation of the key between
\* them, at the times t and t + D, the second is suppressed iff D < 300 s, and is treated as new
\* and notified otherwise
C1_AnyTwoObservations ==
    \A i, j \in 1..Len(obs_log) :
        Consecutive(i, j) =>
            IF obs_log[j].t - obs_log[i].t < Window THEN Suppressed(j) ELSE TreatedAsNew(j)

\* C1, amended: of two observations of one key with no other observation of the key between
\* them, the first of which was treated as new (so its time is the one recorded for the key),
\* the second is suppressed iff D < 300 s, and is treated as new and notified otherwise
C1_WindowFromRecordedSighting ==
    \A i, j \in 1..Len(obs_log) :
        Consecutive(i, j) /\ obs_log[i].new =>
            IF obs_log[j].t - obs_log[i].t < Window THEN Suppressed(j) ELSE TreatedAsNew(j)

\* a deal seen again exactly 300 s after it was recorded has been treated as new and notified
C1_SecondAtWindowIsNew ==
    \E i, j \in 1..Len(obs_log) :
        /\ Consecutive(i, j) /\ obs_log[i].new
        /\ obs_log[j].t - obs_log[i].t = Window
        /\ obs_log[j].new /\ PipelineNotified(j)

Notified(via, n) == \E k \in 1..Len(notifications) : notifications[k].via = via /\ notifications[k].obs = n

\* observation n is offered to the notifier of the pipeline, and to the one of the legacy
\* callback when _safe_on_new_deal made it
Offered(via, n) == via = "pipeline" \/ ~IsNone(obs_log[n].legacy)

\* the path `via' has dealt with observation n: the pipeline has decided and, for a new deal,
\* ended the enrichment; the callback has returned without being cut short by its time limit
Complete(via, n) ==
    IF via = "pipeline" THEN obs_log[n].enrich # "pending" /\ ~obs_log[n].raised
    ELSE (\A tk \in TaskIds : tasks[tk].obs # n) /\ obs_log[n].lookup # "TimeoutError"

\* i is the last sighting before j of the key of j that `via' notified
LastNotifiedSighting(via, i, j) ==
    /\ i < j
    /\ ~IsNone(obs_log[i].key) /\ obs_log[j].key = obs_log[i].key
    /\ Offered(via, i) /\ Notified(via, i)
    /\ \A k \in (i + 1)..(j - 1) : obs_log[k].key = obs_log[i].key => ~Notified(via, k)

\* C2 as stated, for both deduplicators: an observation made at least one window after the last
\* notified sighting of its key is notified again, whatever duplicates were suppressed in between
C2_NotifiedAgainAfterWindow ==
    \A via \in {"pipeline", "legacy"} : \A i, j \in 1..Len(obs_log) :
        /\ LastNotifiedSighting(via, i, j)
        /\ Offered(via, j) /\ Complete(via, j)
        /\ obs_log[j].t - obs_log[i].t >= Window
        => Notified(via, j)

\* C2 for DealWatcher alone: a duplicate leaves seen_deals as it is, and an observation made at
\* least one window after the last sighting the pipeline notified is notified again
WatcherWindowIsFixed ==
    /\ \A n \in 1..Len(obs_log) : ~IsNone(obs_log[n].key) /\ obs_log[n].new => seen_deals[Val(obs_log[n].key)] >= obs_log[n].t
    /\ \A i, j \in 1..Len(obs_log) :
        /\ LastNotifiedSighting("pipeline", i, j)
        /\ Complete("pipeline", j)
        /\ obs_log[j].t - obs_log[i].t >= Window
        => Notified("pipeline", j)

(***************************************************************************)
(* Properties of the handling of failures.                                 *)
(***************************************************************************)
NotificationsOf(via, n) == {k \in 1..Len(notifications) : notifications[k].via = via /\ notifications[k].obs = n}

\* the one notification `via' made for observation n carries these fields and no Vivino data
NotifiedOnceUnenriched(via, n, name, vintage, size, price) ==
    /\ Cardinality(NotificationsOf(via, n)) = 1
    /\ \A k \in NotificationsOf(via, n) :
          /\ notifications[k].wine_name = name
          /\ notifications[k].vintage = vintage
          /\ notifications[k].bottle_size_ml = size
          /\ notifications[k].price = price
          /\ ~notifications[k].vivino

\* C3: when the enrichment of a new deal ends with an exception or at its time limit, the
\* pipeline has called the notifier exactly once for the deal, with the deal's own name, vintage,
\* size and price and no Vivino data; and when the Vivino lookup of process_deal fails,
\* process_deal has called its notifier exactly once, with the Deal's own fields and no Vivino data
C3_FailedEnrichmentStillNotifies ==
    \A n \in 1..Len(obs_log) :
        /\ obs_log[n].enrich \in {"Exception", "TimeoutError"} =>
              NotifiedOnceUnenriched("pipeline", n, obs_log[n].dd.wine_name, obs_log[n].dd.vintage,
                                     obs_log[n].dd.bottle_size_ml, obs_log[n].dd.deal_price)
        /\ obs_log[n].lookup = "Exception" =>
              NotifiedOnceUnenriched("legacy", n, Val(obs_log[n].legacy).title, Val(obs_log[n].legacy).vintage,
                                     Val(obs_log[n].legacy).bottle_size_ml, Val(obs_log[n].legacy).price)

\* the enrichment of a deal ran into its time limit and the Vivino lookup of the callback for
\* the same deal raised; both notifiers were called
C3_BothEnrichmentsFailed ==
    \E n \in 1..Len(obs_log) :
        /\ obs_log[n].enrich = "TimeoutError" /\ Notified("pipeline", n)
        /\ obs_log[n].lookup = "Exception" /\ Notified("legacy", n)

\* C4: no failure inside deal processing ends the watch loop: _process_deal_details never
\* raises, whether key building, the enrichment or the notification fails, and after an
\* exception in an iteration of watch the loop has not stopped and its next DOM check is due
C4_LoopSurvivesFailures ==
    /\ \A n \in 1..Len(obs_log) : ~obs_log[n].raised
    /\ tasks["watch"].pc # "stopped"
    /\ tasks["watch"].pc = "error_sleep" => ENABLED DomCheck

\* key building failed for the first observation, the loop went on to a second DOM check that
\* observed the deal again, and the iteration after it raised
C4_CheckedAgainAfterFailure ==
    /\ Len(obs_log) >= 2
    /\ IsNone(obs_log[1].key) /\ obs_log[2].t > obs_log[1].t
    /\ tasks["watch"].pc = "error_sleep"

(***************************************************************************)
(* Properties of the two strategies running side by side.                  *)
(***************************************************************************)
\* the time and the key of the observation a notification belongs to
TimeOf(k) == obs_log[notifications[k].obs].t
KeyOfNotification(k) == obs_log[notifications[k].obs].key

\* C5: of the candidates the two strategies produce for one deal key within the window, only
\* one is notified: no two notifications, the legacy callback's included, are for the same
\* key at observations less than a window apart
C5_OneNotificationPerDeal ==
    \A a, b \in 1..Len(notifications) :
        a < b /\ KeyOfNotification(a) = KeyOfNotification(b) => TimeOf(b) - TimeOf(a) >= Window

\* a task that stands inside the pipeline works on the observation made last
OneAtATime == \A tk \in TaskIds : tasks[tk].pc \notin IdlePcs => tasks[tk].obs = Len(obs_log)

\* the pipeline's notifications come in the order of their observations
NotifiedInOrderOfAcceptance ==
    \A a, b \in 1..Len(notifications) :
        a < b /\ notifications[a].via = "pipeline" /\ notifications[b].via = "pipeline"
            => notifications[a].obs < notifications[b].obs

\* C6: observations are processed one at a time in the order of their arrival, and the
\* notifications are sent in the order in which their deals were accepted as new
C6_ProcessedInArrivalOrder == OneAtATime /\ NotifiedInOrderOfAcceptance

\* the title part of a key is empty
HasEmptyTitle(key) == CharAt(key, 1) = "|"

\* C7: an observation whose title is empty or a generic tagline is rejected before a key is
\* built, with seen_deals and last_deal_key left alone, and no key with an empty normalized
\* title is ever in seen_deals
C7_GenericTitleRejected ==
    /\ \A n \in 1..Len(obs_log) : is_generic_title(obs_log[n].dd.wine_name) => IsNone(obs_log[n].key)
    /\ \A key \in DOMAIN seen_deals : ~HasEmptyTitle(key)
    /\ ~IsNone(last_deal_key) => ~HasEmptyTitle(Val(last_deal_key))

\* the plausibility floor of a price, 5.00, in cents
PriceFloor == 5 * 100

\* C8: every deal that reaches the key or the notifier has a price of at least 5.00
C8_NoPriceBelowFloor ==
    /\ \A n \in 1..Len(obs_log) : obs_log[n].dd.deal_price >= PriceFloor
    /\ \A k \in 1..Len(notifications) : notifications[k].price >= PriceFloor

(***************************************************************************)
(* watcher_minimal.run_minimal_watcher: one task that reloads the page,    *)
(* reads the title and the price, and notifies when the title changes.     *)
(* last_deal_key holds its last_deal_id, obs_log its iterations, site what *)
(* extract_deal_info reads from the page: a title and an optional price.   *)
(***************************************************************************)
MaxPolls == 3

MinimalTitles == {"Wine A", " wine a ", "Wine B", GENERIC_TITLE, ""}
MinimalPrices == {None, Some(250), Some(2999)}
MinimalPages == { [title |-> t, price |-> p] : t \in MinimalTitles, p \in MinimalPrices }

\* watcher_minimal._deal_id
deal_id(title) == Strip(Lower(title))

\* `if price is not None and price < 5.0: price = None'
FlooredPrice(price) == IF ~IsNone(price) /\ Val(price) < 5 * 100 THEN None ELSE price

\* `price or 0.0'
PriceOrZero(price) == IF IsNone(price) \/ Val(price) = 0 THEN 0 ELSE Val(price)

\* Deal(title=title.strip(), price=price or 0.0, bottle_size_ml=750, url=...)
MinimalDeal(title, price) ==
    [title |-> Strip(title), price |-> PriceOrZero(price), list_price |-> None, vintage |-> None,
     region |-> None, url |-> DEAL_URL, bottle_size_ml |-> 750]

\* an iteration of the loop: what it read, whether it took the deal for a new one, and the
\* exception its body raised into the handler of the loop
Iteration(title, price, skipped, new, raised) ==
    [title |-> title, price |-> price, skipped |-> skipped, new |-> new, raised |-> raised]

InitMinimal ==
    /\ now = 0
    /\ running = TRUE
    /\ seen_deals = EmptyMap
    /\ last_deal_key = None
    /\ last_heartbeat = 0
    /\ last_dom_check_time = LongAgo
    /\ check_requested = FALSE
    /\ dd_seen = EmptyMap
    /\ tasks = [tk \in TaskIds |-> Fresh("idle")]
    /\ obs_log = << >>
    /\ notifications = << >>
    /\ site \in MinimalPages
    /\ handles = NoHandles
    /\ scanner = NewScanner
    /\ blocked_requests_count = 0

\* the site puts up another deal, or its tagline
SiteChanges(pg) ==
    /\ pg # site
    /\ Len(obs_log) < MaxPolls
    /\ site' = pg
    /\ UNCHANGED << handles, scanner, blocked_requests_count >>
    /\ UNCHANGED << now, running, seen_deals, last_deal_key, last_heartbeat, last_dom_check_time,
                    check_requested, dd_seen, tasks, obs_log, notifications >>

\* one iteration of the loop of run_minimal_watcher, from the reload to the next sleep.
\* telegram_send returns True or False and never raises
MinimalIteration ==
    /\ Len(obs_log) < MaxPolls
    /\ UNCHANGED << now, running, seen_deals, last_heartbeat, last_dom_check_time,
                    check_requested, dd_seen, tasks, site, handles, scanner, blocked_requests_count >>
    /\ IF site.title = "" \/ is_generic_title(site.title)
       THEN /\ obs_log' = Append(obs_log, Iteration(site.title, site.price, TRUE, FALSE, "none"))
            /\ UNCHANGED << last_deal_key, notifications >>
       ELSE IF deal_id(site.title) = "" \/ Some(deal_id(site.title)) = last_deal_key
            THEN /\ obs_log' = Append(obs_log, Iteration(site.title, FlooredPrice(site.price), FALSE, FALSE, "none"))
                 /\ UNCHANGED << last_deal_key, notifications >>
            ELSE IF ~ValidDeal(MinimalDeal(site.title, FlooredPrice(site.price)))
                 THEN /\ obs_log' = Append(obs_log, Iteration(site.title, FlooredPrice(site.price), FALSE, TRUE, "ValidationError"))
                      /\ UNCHANGED << last_deal_key, notifications >>
                 ELSE /\ obs_log' = Append(obs_log, Iteration(site.title, FlooredPrice(site.price), FALSE, TRUE, "none"))
                      /\ notifications' = Append(notifications,
                             Notification("minimal", Len(obs_log) + 1, Strip(site.title), None, 750,
                                          Some(PriceOrZero(FlooredPrice(site.price))), FALSE))
                      /\ last_deal_key' = Some(deal_id(site.title))

NextMinimal ==
    \/ \E pg \in MinimalPages : SiteChanges(pg)
    \/ MinimalIteration

SpecMinimal == InitMinimal /\ [][NextMinimal]_vars

\* iteration n sent a notification
MinimalNotified(n) == \E k \in 1..Len(notifications) : notifications[k].obs = n

\* C9: in the minimal watcher a newly seen deal with a real title whose price is absent, or
\* was discarded by the floor of 5.00, is still notified, and is then remembered as the
\* last deal
C9_AbsentPriceStillNotified ==
    \A n \in 1..Len(obs_log) :
        obs_log[n].new /\ IsNone(obs_log[n].price) =>
            /\ MinimalNotified(n)
            /\ n = Len(obs_log) => last_deal_key = Some(deal_id(obs_log[n].title))

(***************************************************************************)
(* The watch loop of a watcher that has run for long: seen_deals holds the *)
(* keys of 99 or 100 earlier deals.                                        *)
(***************************************************************************)
MaxLongObs == 2

\* the key of the i-th earlier deal
FillerKey(i) == "deal " \o ToString(i) \o "|unknown|10.00"

\* the ages, in milliseconds at the start of a behaviour, of the entries of each kind of map
MixedAges == << 700000, 600000, 500000, 100000 >>
YoungAges == << 100000, 100000, 100000, 100000 >>

FillerIndex(key, n) == CHOOSE i \in 1..n : FillerKey(i) = key

\* n entries, the i-th recorded ages[1 + i mod 4] ago
FillerMap(n, ages) == [key \in {FillerKey(i) : i \in 1..n} |-> 0 - ages[1 + (FillerIndex(key, n) % 4)]]

LongMaps == { FillerMap(n, ages) : n \in {SEEN_DEALS_LIMIT - 1, SEEN_DEALS_LIMIT}, ages \in {MixedAges, YoungAges} }

LongSiteChoices == { << "NetNoPrice", "PageA", "none" >>, << "NetNoPrice", "PageAttr", "none" >> }
LongSites == { Site(c[1], c[2], c[3], MaxLongObs) : c \in LongSiteChoices }

InitLong ==
    /\ now = 0
    /\ running = FALSE
    /\ seen_deals \in LongMaps
    /\ last_deal_key = None
    /\ last_heartbeat = 0
    /\ last_dom_check_time = LongAgo
    /\ check_requested = FALSE
    /\ dd_seen = EmptyMap
    /\ tasks = [tk \in TaskIds |-> Fresh(IF tk = "watch" THEN "start" ELSE "idle")]
    /\ obs_log = << >>
    /\ notifications = << >>
    /\ site \in LongSites
    /\ handles = NoHandles
    /\ scanner = RunningScanner
    /\ blocked_requests_count = 0

SpecLong == InitLong /\ [][NextDom]_vars

\* this step is a call of _process_deal_details that records its key
RecordsKey == Len(obs_log') = Len(obs_log) + 1 /\ obs_log'[Len(obs_log')].new

\* the key recorded by this step, and the keys of the map once it is recorded
RecordedKey == Val(obs_log'[Len(obs_log')].key)
KeysWithRecorded == DOMAIN seen_deals \cup {RecordedKey}

\* the keys whose entry is older than twice the window at the time of this step
OlderThanTwiceWindow == { k \in DOMAIN seen_deals \ {RecordedKey} : now - seen_deals[k] > 2 * Window }

\* C10: when recording a deal makes seen_deals exceed 100 entries, exactly the entries older
\* than twice the window (600 s) are removed, the entry just recorded being kept; when the
\* map has 100 entries or fewer none is removed
C10_EvictsExactlyTheOld ==
    [][RecordsKey =>
         DOMAIN seen_deals' = IF Cardinality(KeysWithRecorded) > SEEN_DEALS_LIMIT
                              THEN KeysWithRecorded \ OlderThanTwiceWindow
                              ELSE KeysWithRecorded]_vars

\* what the clean-up does remove: the entries twice the window old or older
AtLeastTwiceWindowOld == { k \in DOMAIN seen_deals \ {RecordedKey} : now - seen_deals[k] >= 2 * Window }

CleanupEvictsFromTwiceWindowOn ==
    [][RecordsKey =>
         DOMAIN seen_deals' = IF Cardinality(KeysWithRecorded) > SEEN_DEALS_LIMIT
                              THEN KeysWithRecorded \ AtLeastTwiceWindowOld
                              ELSE KeysWithRecorded]_vars

\* C11: seen_deals holds at most 100 entries after every call of _process_deal_details
C11_MapWithinCap == Cardinality(DOMAIN seen_deals) <= SEEN_DEALS_LIMIT

(***************************************************************************)
(* Properties of main.DealDeduplicator, which process_deal consults.       *)
(***************************************************************************)
DedupWindow == DEAL_DEDUP_MINUTES * 60 * 1000

\* process_deal has called is_duplicate for observation n
IsDuplicateCalled(n) ==
    /\ ~IsNone(obs_log[n].legacy)
    /\ obs_log[n].enrich # "pending" /\ ~obs_log[n].raised
    /\ \A tk \in TaskIds : ~(tasks[tk].obs = n /\ tasks[tk].pc = "notify")

\* is_duplicate returned False for observation n: process_deal went on to the Vivino lookup
ReturnedFalse(n) ==
    obs_log[n].lookup # "none" \/ \E tk \in TaskIds : tasks[tk].obs = n /\ tasks[tk].pc = "cb_lookup"

\* the key is_duplicate builds for observation n
LegacyKey(n) == KeyOf(Val(obs_log[n].legacy).title, Val(obs_log[n].legacy).vintage, Val(obs_log[n].legacy).price)

\* an earlier call recorded the key of observation n less than dedup_minutes before it
RecordedWithinWindow(n) ==
    \E i \in 1..(n - 1) :
        /\ IsDuplicateCalled(i) /\ ReturnedFalse(i)
        /\ LegacyKey(i) = LegacyKey(n)
        /\ obs_log[n].t - obs_log[i].t < DedupWindow

\* C12: is_duplicate returns True exactly when an earlier call recorded the same key less than
\* dedup_minutes ago; otherwise (exactly dedup_minutes included) it returns False and records
\* the key anew; and after a call no entry of its map is older than the window
C12_DuplicateIffWithinWindow ==
    \A n \in 1..Len(obs_log) :
        IsDuplicateCalled(n) =>
            /\ ~ReturnedFalse(n) <=> RecordedWithinWindow(n)
            /\ n = Len(obs_log) /\ ReturnedFalse(n) => dd_seen[LegacyKey(n)] = obs_log[n].t
            /\ n = Len(obs_log) /\ now = obs_log[n].t => \A k \in DOMAIN dd_seen : now - dd_seen[k] <= DedupWindow

\* what is_duplicate does: it returns True when an earlier call recorded the key dedup_minutes
\* ago or less
RecordedUpToWindow(n) ==
    \E i \in 1..(n - 1) :
        /\ IsDuplicateCalled(i) /\ ReturnedFalse(i)
        /\ LegacyKey(i) = LegacyKey(n)
        /\ obs_log[n].t - obs_log[i].t <= DedupWindow

DuplicateIffUpToWindow ==
    \A n \in 1..Len(obs_log) :
        IsDuplicateCalled(n) =>
            /\ ~ReturnedFalse(n) <=> RecordedUpToWindow(n)
            /\ n = Len(obs_log) /\ ReturnedFalse(n) => dd_seen[LegacyKey(n)] = obs_log[n].t
            /\ n = Len(obs_log) /\ now = obs_log[n].t => \A k \in DOMAIN dd_seen : now - dd_seen[k] <= DedupWindow

(***************************************************************************)
(* The extraction functions on their own.  site holds one call, [fn: the   *)
(* function, arg: its argument, about: what the argument was built from],  *)
(* and obs_log the result of the call once it is made.                     *)
(***************************************************************************)
Call(fn, arg, about) == [fn |-> fn, arg |-> arg, about |-> about]
Result(out) == [fn |-> site.fn, about |-> site.about, out |-> out]

\* the site's tagline as a title: as it is, in capitals, and in small letters between blanks
TaglineTitles ==
    { GENERIC_TITLE, "LAST BOTTLE - YOUR DAILY PURVEYOR OF FINE WINE",
      "  last bottle - your daily purveyor of fine wine " }
CandidateTitles == TaglineTitles \cup {"Wine A"}

\* a deal response and a page that offer `title' at 19.99
TitledPayload(title) == Dict(<< <<"title", JStr(title)>>, <<"price", JNum(1999)>>, <<"url", JStr(DEAL_URL)>> >>)
TitledPage(title) ==
    PlainPage(title, "Last Bottle $19.99", "<h1>" \o title \o "</h1><p>Last Bottle $19.99</p>")

TitleCalls ==
    { Call("extract_deal_from_json", TitledPayload(t), [title |-> t]) : t \in CandidateTitles }
    \cup { Call("extract_deal_details", TitledPage(t), [title |-> t]) : t \in CandidateTitles }
    \cup { Call("extract_deal_from_dom", TitledPage(t), [title |-> t]) : t \in CandidateTitles }

\* texts for the price picker, put together from: the retail price, the best-web price, the
\* offer price after its keyword, and a mention of the site's name without a price
PriceTags == {"retail", "bestweb", "offer", "brand"}
PriceSegment(tag) ==
    CASE tag = "retail" -> "Retail $100.00"
      [] tag = "bestweb" -> "Best Web $85.00"
      [] tag = "offer" -> "Last Bottle Price $69.99"
      [] tag = "brand" -> "Last Bottle Wines"

MaxSegments == 3

\* the sequences of one to MaxSegments different tags
PriceOrders ==
    { o \in UNION { [1..n -> PriceTags] : n \in 1..MaxSegments } :
        \A i, j \in 1..Len(o) : i # j => o[i] # o[j] }

RECURSIVE JoinSegments(_, _)
JoinSegments(o, k) ==
    IF k > Len(o) THEN "" ELSE PriceSegment(o[k]) \o (IF k < Len(o) THEN " " ELSE "") \o JoinSegments(o, k + 1)

Mentions(o, tag) == \E k \in 1..Len(o) : o[k] = tag

PickTextCalls == { Call("pick_lastbottle_price", JStr(JoinSegments(o, 1)), [parts |-> o]) : o \in PriceOrders }

\* lines of a document that give the price of others: none has an offer-price keyword
CompetitorLines ==
    { "Retail: $100.00", "Best Web: $85.00", "Retail Price: $100.00", "Best Web Price: $85.00", "MSRP $50.00" }

\* documents of one line, or two different lines, of these under the heading of a wine
CompetitorDocs ==
    { << a >> : a \in CompetitorLines } \cup { d \in CompetitorLines \X CompetitorLines : d[1] # d[2] }

DocBody(lines) == IF Len(lines) = 1 THEN lines[1] ELSE lines[1] \o "\n" \o lines[2]
DocHtml(lines) ==
    IF Len(lines) = 1 THEN "<div>" \o lines[1] \o "</div>"
    ELSE "<div>" \o lines[1] \o "</div><div>" \o lines[2] \o "</div>"

CompetitorCalls ==
    { Call("extract_deal_details", PlainPage("Test Wine", DocBody(d), "<h1>Test Wine</h1>" \o DocHtml(d)), [lines |-> d])
        : d \in CompetitorDocs }

\* ways of writing an offer price, with the amount each stands for (None: not a number)
AmountCases ==
    { [text |-> "$1,299.99", cents |-> Some(129999)], [text |-> "$1,299", cents |-> Some(129900)],
      [text |-> "$12,345.00", cents |-> Some(1234500)], [text |-> "$999.99", cents |-> Some(99999)],
      [text |-> "$n/a", cents |-> None], [text |-> "TBD", cents |-> None] }

OfferText(c) == "Last Bottle Price " \o c.text
OfferPage(c) == PlainPage("Test Wine", OfferText(c), "<h1>Test Wine</h1><p>" \o OfferText(c) \o "</p>")

AmountCalls ==
    { Call("pick_lastbottle_price", JStr(OfferText(c)), c) : c \in AmountCases }
    \cup { Call("extract_deal_details", OfferPage(c), c) : c \in AmountCases }
    \cup { Call("extract_deal_from_dom", OfferPage(c), c) : c \in AmountCases }

\* dict payloads for the price picker, each with the first value under an offer-price key,
\* nested keys before flat ones, that is a positive number (None without one)
DictCases ==
    { [obj |-> Dict(<< <<"lastBottle", JNum(5999)>>, <<"prices", Dict(<< <<"last_bottle", JNum(4999)>> >>)>> >>),
       first |-> Some(4999)],
      [obj |-> Dict(<< <<"lb", JInt(10)>>, <<"lastBottle", JNum(5999)>> >>), first |-> Some(5999)],
      [obj |-> Dict(<< <<"priceInfo", Dict(<< <<"lb", JStr("1,299.99")>> >>)>>, <<"pricing", Dict(<< <<"lb", JInt(20)>> >>)>> >>),
       first |-> Some(2000)],
      [obj |-> Dict(<< <<"last_bottle", JStr("n/a")>>, <<"lastBottlePrice", JNum(5999)>> >>), first |-> Some(5999)],
      [obj |-> Dict(<< <<"last_bottle", JInt(0)>>, <<"lastBottle", JNum(5999)>> >>), first |-> Some(5999)],
      [obj |-> Dict(<< <<"prices", Dict(<< <<"retail", JNum(10000)>> >>)>>, <<"last_bottle_price", JStr("$42")>> >>),
       first |-> Some(4200)],
      [obj |-> Dict(<< <<"price", JNum(1999)>>, <<"retail", JNum(10000)>> >>), first |-> None],
      [obj |-> Dict(<< <<"name", JStr("Wine A")>>, <<"best_web", JStr("$85.00")>> >>), first |-> None],
      [obj |-> Dict(<< <<"name", JStr("Last Bottle Special")>>, <<"retail", JStr("$100.00")>> >>), first |-> None],
      [obj |-> Dict(<< <<"lb", JStr("soon")>> >>), first |-> None] }

DictCalls == { Call("pick_lastbottle_price", c.obj, [first |-> c.first]) : c \in DictCases }

\* payloads for extract_deal_from_json: each of name, price and url is absent or has one of
\* these values; a price value comes with what it is
NameValues == { None, Some(JStr("Wine A")), Some(JInt(123)) }
UrlValues == { None, Some(JStr(DEAL_URL)) }
PriceValues ==
    { [value |-> None, is |-> "absent"], [value |-> Some(JNum(2599)), is |-> "positive"],
      [value |-> Some(JStr("25.99")), is |-> "positive"], [value |-> Some(JInt(0)), is |-> "zero"],
      [value |-> Some(JNum(-500)), is |-> "negative"], [value |-> Some(JStr("not a price")), is |-> "non-numeric"] }

Field(key, value) == IF IsNone(value) THEN << >> ELSE << << key, Val(value) >> >>

FieldsPayload(name, price, url) == Dict(Field("name", name) \o Field("price", price) \o Field("url", url))

RequiredFieldCalls ==
    { Call("extract_deal_from_json", FieldsPayload(n, pr.value, u),
           [has_title |-> ~IsNone(n), price_is |-> pr.is, has_url |-> ~IsNone(u)])
        : n \in NameValues, pr \in PriceValues, u \in UrlValues }

\* spellings of the title `chateau margaux' that differ from it in letter case, diacritics,
\* punctuation and whitespace only: a core between a prefix and a suffix
TitleCores ==
    { "chateau margaux", "Château Margaux", "CHATEAU   MARGAUX", "Château, Margaux!", "Château - Margaux",
      "château\tmargaux" }
TitlePrefixes == { "", "  ", "- " }
TitleSuffixes == { "", " \n", "!", " !" }
TitleSpellings ==
    { [title |-> pre \o core \o post, pre |-> pre, post |-> post]
        : pre \in TitlePrefixes, core \in TitleCores, post \in TitleSuffixes }

\* the vintages and the prices of the keys, with their part of the key
KeyVintageCases == { [vintage |-> None, part |-> "unknown"], [vintage |-> Some("2015"), part |-> "2015"] }
KeyPriceCases == { [price |-> 2599, part |-> "25.99"], [price |-> 50000, part |-> "500.00"],
                   [price |-> 1000, part |-> "10.00"] }

DealKeyCalls ==
    { Call("deal_key", [title |-> t.title, vintage |-> v.vintage, price |-> pr.price],
           [key |-> "chateau margaux|" \o v.part \o "|" \o pr.part, pre |-> t.pre, post |-> t.post])
        : t \in TitleSpellings, v \in KeyVintageCases, pr \in KeyPriceCases }

\* mentions of a bottle size, each with the first entry of _SIZE_PATTERNS that matches it and
\* the size of that entry
SizeMentions ==
    { [text |-> "Split", entry |-> 1, ml |-> 187], [text |-> "375ml", entry |-> 2, ml |-> 375],
      [text |-> "half", entry |-> 2, ml |-> 375], [text |-> "750 ML", entry |-> 6, ml |-> 750],
      [text |-> "Double Magnum 3L", entry |-> 8, ml |-> 3000], [text |-> "double  magnum", entry |-> 9, ml |-> 3000],
      [text |-> "Jeroboam", entry |-> 10, ml |-> 3000], [text |-> "Imperial", entry |-> 11, ml |-> 6000],
      [text |-> "magnum", entry |-> 12, ml |-> 1500], [text |-> "1.5 L", entry |-> 12, ml |-> 1500] }

\* texts with one mention, or with two different mentions in either order
SizeTexts == { << m >> : m \in SizeMentions } \cup { p \in SizeMentions \X SizeMentions : p[1] # p[2] }

SizeText(ms) == IF Len(ms) = 1 THEN "Wine A " \o ms[1].text ELSE "Wine A " \o ms[1].text \o " / " \o ms[2].text

SizeCalls == { Call("normalize_bottle_size", Some(SizeText(ms)), [mentions |-> ms]) : ms \in SizeTexts }

\* generic size tokens "<N> L" and "<N> ml": the number as written, N in millilitres, and the
\* named size, if any, whose pattern matches inside the token
GenericSizes ==
    { [n |-> "2.5", unit |-> "L", ml |-> 2500, inner |-> None], [n |-> "2.3", unit |-> "L", ml |-> 2300, inner |-> Some(3000)],
      [n |-> "2.1", unit |-> "L", ml |-> 2100, inner |-> Some(1000)], [n |-> "0.1", unit |-> "L", ml |-> 100, inner |-> Some(1000)],
      [n |-> "0.2", unit |-> "L", ml |-> 200, inner |-> None], [n |-> "0.09", unit |-> "L", ml |-> 90, inner |-> None],
      [n |-> "6.0", unit |-> "L", ml |-> 6000, inner |-> None], [n |-> "6.5", unit |-> "L", ml |-> 6500, inner |-> None],
      [n |-> "7", unit |-> "L", ml |-> 7000, inner |-> None], [n |-> "12", unit |-> "L", ml |-> 12000, inner |-> None],
      [n |-> "1.75", unit |-> "L", ml |-> 1750, inner |-> None], [n |-> "4", unit |-> "L", ml |-> 4000, inner |-> None],
      [n |-> "250", unit |-> "ml", ml |-> 250, inner |-> None], [n |-> "99", unit |-> "ml", ml |-> 99, inner |-> None],
      [n |-> "100", unit |-> "ml", ml |-> 100, inner |-> None], [n |-> "5000", unit |-> "ml", ml |-> 5000, inner |-> None],
      [n |-> "6001", unit |-> "ml", ml |-> 6001, inner |-> None], [n |-> "50", unit |-> "ml", ml |-> 50, inner |-> None],
      [n |-> "7000", unit |-> "ml", ml |-> 7000, inner |-> None], [n |-> "10000", unit |-> "ml", ml |-> 10000, inner |-> None] }

\* the token written with and without a blank before the unit, in a title
GenericSizeBlanks == {"", " "}
GenericSizeText(g, blank) == "Wine A " \o g.n \o blank \o g.unit \o " bottle"

GenericSizeCalls ==
    { Call("normalize_bottle_size", Some(GenericSizeText(c[1], c[2])), [generic |-> c[1]]) :
        c \in GenericSizes \X GenericSizeBlanks }

\* years written where each strategy looks for the vintage: a JSON field holding a string or a
\* number, a labelled line and a bare token of the document text, and the vintage element of
\* the live page
VintageYears == {"1800", "1900", "1949", "1950", "2020", "2040", "2041", "2050"}

VintagePayload(y, place) ==
    Dict(<< <<"name", JStr("Wine A")>>,
            IF place = "string" THEN <<"vintage", JStr(y)>> ELSE <<"year", JInt(StrToNat(y))>>,
            <<"price", JNum(1999)>>, <<"url", JStr(DEAL_URL)>> >>)

VintagePage(y, place) ==
    IF place = "label"
    THEN PlainPage("Wine A", "Vintage: " \o y \o "\nLast Bottle $19.99",
                   "<h1>Wine A</h1><p>Vintage: " \o y \o "</p><p>Last Bottle $19.99</p>")
    ELSE IF place = "bare"
    THEN PlainPage("Wine A " \o y, "Last Bottle $19.99", "<h1>Wine A " \o y \o "</h1><p>Last Bottle $19.99</p>")
    ELSE [PlainPage("Wine A", "Last Bottle $19.99",
                    "<h1>Wine A</h1><span class=\"year\">" \o y \o "</span><p>Last Bottle $19.99</p>")
            EXCEPT !.dom_vintage = Some(y)]

VintageCalls ==
    { Call("extract_deal_from_json", VintagePayload(c[1], c[2]), [year |-> c[1], place |-> c[2]]) :
        c \in VintageYears \X {"string", "number"} }
    \cup { Call("extract_deal_details", VintagePage(c[1], c[2]), [year |-> c[1], place |-> c[2]]) :
        c \in VintageYears \X {"label", "bare"} }
    \cup { Call("extract_deal_from_dom", VintagePage(y, "element"), [year |-> y, place |-> "element"]) : y \in VintageYears }

PureCalls ==
    TitleCalls \cup PickTextCalls \cup CompetitorCalls \cup AmountCalls \cup DictCalls \cup RequiredFieldCalls
    \cup DealKeyCalls \cup SizeCalls \cup GenericSizeCalls \cup VintageCalls

InitPure ==
    /\ now = 0
    /\ running = FALSE
    /\ seen_deals = EmptyMap
    /\ last_deal_key = None
    /\ last_heartbeat = 0
    /\ last_dom_check_time = LongAgo
    /\ check_requested = FALSE
    /\ dd_seen = EmptyMap
    /\ tasks = [tk \in TaskIds |-> Fresh("idle")]
    /\ obs_log = << >>
    /\ notifications = << >>
    /\ site \in PureCalls
    /\ handles = NoHandles
    /\ scanner = NewScanner
    /\ blocked_requests_count = 0

\* the call is made and its result kept
Returns(out) ==
    /\ obs_log = << >>
    /\ obs_log' = << Result(out) >>
    /\ UNCHANGED << now, running, seen_deals, last_deal_key, last_heartbeat, last_dom_check_time,
                    check_requested, dd_seen, tasks, notifications, site, handles, scanner, blocked_requests_count >>

CallExtractDealFromJson == site.fn = "extract_deal_from_json" /\ Returns(extract_deal_from_json(site.arg))
CallExtractDealDetails == site.fn = "extract_deal_details" /\ Returns(extract_deal_details(site.arg))
CallExtractDealFromDom == site.fn = "extract_deal_from_dom" /\ Returns(extract_deal_from_dom(site.arg))

CallPickLastbottlePrice == site.fn = "pick_lastbottle_price" /\ Returns(pick_lastbottle_price(site.arg))

CallDealKey == site.fn = "deal_key" /\ Returns(deal_key(site.arg.title, site.arg.vintage, site.arg.price))

CallNormalizeBottleSize == site.fn = "normalize_bottle_size" /\ Returns(normalize_bottle_size(site.arg))

NextPure ==
    \/ CallNormalizeBottleSize
    \/ CallDealKey
    \/ CallPickLastbottlePrice
    \/ CallExtractDealFromJson
    \/ CallExtractDealDetails
    \/ CallExtractDealFromDom

SpecPure == InitPure /\ [][NextPure]_vars

\* the results of the calls of fn
ResultsOf(fn) == { n \in 1..Len(obs_log) : obs_log[n].fn = fn }

\* a title is the tagline of the site: a generic marker in any letter case between blanks
IsTagline(title) == \E k \in 1..Len(GENERIC_MARKERS) : Strip(Lower(title)) = GENERIC_MARKERS[k]

\* C13: a title that equals a known site tagline, in any letter case and with any whitespace
\* around it, is accepted by none of extract_deal_from_json, extract_deal_details and
\* extract_deal_from_dom: each returns no candidate
C13_TaglineNeverAccepted ==
    /\ \A n \in ResultsOf("extract_deal_from_json") :
          "title" \in DOMAIN obs_log[n].about /\ IsTagline(obs_log[n].about.title)
              => ~obs_log[n].out.raised /\ IsNone(obs_log[n].out.deal)
    /\ \A n \in ResultsOf("extract_deal_details") \cup ResultsOf("extract_deal_from_dom") :
          "title" \in DOMAIN obs_log[n].about /\ IsTagline(obs_log[n].about.title) => IsNone(obs_log[n].out)

\* C14: on a text, pick_lastbottle_price returns the amount that follows the `last bottle'
\* keyword, whatever retail and best-web amounts the text has, and returns nothing for a text
\* without the keyword
C14_PicksOfferPriceOnly ==
    \A n \in ResultsOf("pick_lastbottle_price") :
        /\ "parts" \in DOMAIN obs_log[n].about /\ Mentions(obs_log[n].about.parts, "offer")
              => obs_log[n].out = Some(6999)
        /\ "parts" \in DOMAIN obs_log[n].about /\ ~Mentions(obs_log[n].about.parts, "offer")
                /\ ~Mentions(obs_log[n].about.parts, "brand")
              => IsNone(obs_log[n].out)

\* what the picker does guarantee: on a text that mentions `last bottle' only before the offer
\* price, it returns the offer price, and nothing when the text has no such mention
PicksOfferPriceWithoutOtherMention ==
    \A n \in ResultsOf("pick_lastbottle_price") :
        "parts" \in DOMAIN obs_log[n].about /\ ~Mentions(obs_log[n].about.parts, "brand")
            => obs_log[n].out = IF Mentions(obs_log[n].about.parts, "offer") THEN Some(6999) ELSE None

\* C15: for a document whose only amounts are labelled as retail, best-web or MSRP prices and
\* which has no offer-price keyword, extract_deal_details returns no candidate
C15_NoCompetitorPrice ==
    \A n \in ResultsOf("extract_deal_details") :
        "lines" \in DOMAIN obs_log[n].about => IsNone(obs_log[n].out)

\* C16: an offer price written with thousands separators after the offer keyword is returned
\* in full by pick_lastbottle_price on text, by extract_deal_from_dom, which uses it, and by
\* the HTML price extraction; a value that is not a number gives nothing, and no exception
C16_ThousandsSeparators ==
    /\ \A n \in ResultsOf("pick_lastbottle_price") :
          "cents" \in DOMAIN obs_log[n].about => obs_log[n].out = obs_log[n].about.cents
    /\ \A n \in ResultsOf("extract_deal_details") :
          "cents" \in DOMAIN obs_log[n].about =>
              IF IsNone(obs_log[n].about.cents) THEN IsNone(obs_log[n].out)
              ELSE ~IsNone(obs_log[n].out) /\ Val(obs_log[n].out).deal_price = Val(obs_log[n].about.cents)
    /\ \A n \in ResultsOf("extract_deal_from_dom") :
          "cents" \in DOMAIN obs_log[n].about =>
              IF IsNone(obs_log[n].about.cents) THEN IsNone(obs_log[n].out)
              ELSE ~IsNone(obs_log[n].out) /\ Val(obs_log[n].out).price = Val(obs_log[n].about.cents)

\* C17: for a dict payload pick_lastbottle_price consults the offer-price keys only, those
\* nested under prices / pricing / priceInfo before those on the root, in their fixed order,
\* and returns the first value that is a positive number; without such a key it returns
\* nothing, whatever the other fields of the payload are
C17_FirstOfferKeyOnly ==
    \A n \in ResultsOf("pick_lastbottle_price") :
        "first" \in DOMAIN obs_log[n].about => obs_log[n].out = obs_log[n].about.first

\* the payload of result n supplies a title, a positive price and a URL
SuppliesRequired(n) ==
    obs_log[n].about.has_title /\ obs_log[n].about.price_is = "positive" /\ obs_log[n].about.has_url

\* C18: extract_deal_from_json returns a candidate only when the payload supplies a title, a
\* price that is a positive number and a URL; when one of them is missing, or the price is
\* not a number, zero or negative, it returns None and raises no exception
C18_RequiredFields ==
    \A n \in ResultsOf("extract_deal_from_json") :
        "price_is" \in DOMAIN obs_log[n].about =>
            /\ ~IsNone(obs_log[n].out.deal) => SuppliesRequired(n)
            /\ ~SuppliesRequired(n) => ~obs_log[n].out.raised /\ IsNone(obs_log[n].out.deal)

\* C19: deal_key gives titles that differ only in letter case, diacritics, punctuation,
\* leading or trailing whitespace or the length of whitespace runs the same key (with the same
\* vintage and price): the normalized title, the vintage or `unknown', and the price with two
\* decimals, joined by |
C19_KeyOfEverySpelling ==
    \A n \in ResultsOf("deal_key") : obs_log[n].out = obs_log[n].about.key

\* what deal_key does guarantee: the same key for the spellings that have no punctuation
\* between the title and the whitespace around it
KeyOfSpellingWithoutOuterPunctuation ==
    \A n \in ResultsOf("deal_key") :
        obs_log[n].about.pre # "- " /\ obs_log[n].about.post # " !" => obs_log[n].out = obs_log[n].about.key

\* the results of normalize_bottle_size on the texts of named sizes
MentionResults == { n \in ResultsOf("normalize_bottle_size") : "mentions" \in DOMAIN obs_log[n].about }

\* the mention of ms whose entry of _SIZE_PATTERNS comes first
EarliestMention(ms) == CHOOSE m \in { ms[k] : k \in 1..Len(ms) } : \A k \in 1..Len(ms) : m.entry <= ms[k].entry

\* the text of result n mentions a double magnum
MentionsDoubleMagnum(n) ==
    \E k \in 1..Len(obs_log[n].about.mentions) : obs_log[n].about.mentions[k].entry \in {8, 9}

\* the size of the entry that comes first among those the mentions of result n match
EarliestPatternWins(n) == obs_log[n].out = EarliestMention(obs_log[n].about.mentions).ml

\* C20 as stated: of several named sizes in a text normalize_bottle_size returns the one whose
\* pattern comes first in _SIZE_PATTERNS, wherever the mentions stand in the text, and every
\* text that mentions a double magnum gives 3000
C20_DoubleMagnumAlways3000 ==
    \A n \in MentionResults :
        /\ EarliestPatternWins(n)
        /\ MentionsDoubleMagnum(n) => obs_log[n].out = 3000

\* C20, amended: of several named sizes in a text normalize_bottle_size returns the one whose
\* pattern comes first in _SIZE_PATTERNS, wherever the mentions stand in the text; a text that
\* mentions a double magnum never gives 1500, and gives 3000 unless it also mentions a size
\* whose pattern comes before the double magnum's
C20_EarliestPatternWins ==
    \A n \in MentionResults :
        /\ EarliestPatternWins(n)
        /\ MentionsDoubleMagnum(n) => obs_log[n].out # 1500
        /\ MentionsDoubleMagnum(n) /\ EarliestMention(obs_log[n].about.mentions).entry >= 8 => obs_log[n].out = 3000

\* a text that mentions a magnum before a double magnum has given 3000, and one that mentions
\* a double magnum before a half bottle has given 375
C20_LaterMentionWon ==
    \E n \in MentionResults :
        /\ Len(obs_log[n].about.mentions) = 2
        /\ \/ /\ obs_log[n].about.mentions[1].text = "magnum"
              /\ obs_log[n].about.mentions[2].entry = 9
              /\ obs_log[n].out = 3000
           \/ /\ obs_log[n].about.mentions[1].entry = 9
              /\ obs_log[n].about.mentions[2].text = "half"
              /\ obs_log[n].out = 375

\* the results of normalize_bottle_size on the texts of one generic size token
GenericResults == { n \in ResultsOf("normalize_bottle_size") : "generic" \in DOMAIN obs_log[n].about }

\* N in millilitres when that lies within 100..6000, and the default otherwise
SizeInRangeOrDefault(ml) == IF ml >= 100 /\ ml <= 6000 THEN ml ELSE 750

\* C21: for a text whose only size mention is a generic `<N> L' token normalize_bottle_size
\* returns N x 1000 when 0.1 <= N <= 6.0 and 750 otherwise, for a generic `<N> ml' token N when
\* 100 <= N <= 6000 and 750 otherwise, and so always a size within 100..6000
C21_GenericSizeInRange ==
    \A n \in GenericResults :
        /\ obs_log[n].out = SizeInRangeOrDefault(obs_log[n].about.generic.ml)
        /\ obs_log[n].out >= 100 /\ obs_log[n].out <= 6000

\* what normalize_bottle_size does guarantee: the size of the named pattern that matches inside
\* the token when there is one, the size of the token within the range otherwise, and always a
\* size within 100..6000
GenericSizeUnlessNamedInside ==
    \A n \in GenericResults :
        /\ obs_log[n].out = IF IsNone(obs_log[n].about.generic.inner)
                            THEN SizeInRangeOrDefault(obs_log[n].about.generic.ml)
                            ELSE Val(obs_log[n].about.generic.inner)
        /\ obs_log[n].out >= 100 /\ obs_log[n].out <= 6000

\* the candidate of result n, if the strategy produced one
Candidate(n) == IF obs_log[n].fn = "extract_deal_from_json" THEN obs_log[n].out.deal ELSE obs_log[n].out

\* the vintage of a candidate as a number: extract_deal_details gives a number, the other two
\* strategies a string
VintageYear(n) ==
    IF obs_log[n].fn = "extract_deal_details" THEN Val(Val(Candidate(n)).vintage)
    ELSE IF IsDigitStr(Val(Val(Candidate(n)).vintage)) THEN StrToNat(Val(Val(Candidate(n)).vintage))
    ELSE 0

\* the candidate of result n has no vintage or one within 1950..2040
VintageAbsentOrPlausible(n) ==
    IsNone(Val(Candidate(n)).vintage) \/ (VintageYear(n) >= 1950 /\ VintageYear(n) <= 2040)

\* the results of the three extraction strategies that are candidates
Candidates ==
    { n \in ResultsOf("extract_deal_from_json") \cup ResultsOf("extract_deal_details")
            \cup ResultsOf("extract_deal_from_dom") :
        ~(obs_log[n].fn = "extract_deal_from_json" /\ obs_log[n].out.raised) /\ ~IsNone(Candidate(n)) }

\* C22: in every candidate of extract_deal_from_json, extract_deal_details and
\* extract_deal_from_dom the vintage is absent or a year within 1950..2040
C22_VintageInRange == \A n \in Candidates : VintageAbsentOrPlausible(n)

\* what the code does guarantee: the range for the candidates of extract_deal_details, and for
\* the other two strategies a year within the range exactly as it is written
VintageInRangeFromText ==
    \A n \in Candidates :
        /\ obs_log[n].fn = "extract_deal_details" => VintageAbsentOrPlausible(n)
        /\ "year" \in DOMAIN obs_log[n].about /\ obs_log[n].fn = "extract_deal_details" =>
              Val(Candidate(n)).vintage =
                  IF StrToNat(obs_log[n].about.year) >= 1950 /\ StrToNat(obs_log[n].about.year) <= 2040
                  THEN Some(StrToNat(obs_log[n].about.year)) ELSE None
        /\ "year" \in DOMAIN obs_log[n].about /\ obs_log[n].about.place \in {"string", "number"} =>
              Val(Candidate(n)).vintage = Some(obs_log[n].about.year)

(***************************************************************************)
(* notify.telegram_send and notify.send_telegram_message: one call, from   *)
(* time 0.  site is the call, tasks["watch"] the position of the caller in *)
(* it (obs counts the attempts of _send_telegram_message), obs_log the     *)
(* posts to the Telegram API followed by the end of the call.              *)
(***************************************************************************)
\* timeout_s, in milliseconds
SEND_TIMEOUT == 10000
\* stop_after_attempt(2)
STOP_AFTER_ATTEMPT == 2
\* wait_exponential(multiplier=1, min=1, max=5) after the first attempt, in milliseconds
RETRY_WAIT == 1000

Senders == {"telegram_send", "send_telegram_message"}

\* how a post to the API ends: accepted; an HTTP error or an error status (httpx.HTTPError); a
\* body that is not JSON (ValueError); an answer whose "ok" is false; any other exception
PostOutcomes == {"ok", "HTTPError", "ValueError", "not_ok", "Exception"}
\* how long a post takes
PostDurations == {200, 3000, 9000}

\* the exception that leaves one attempt of _send_telegram_message
AttemptRaises(outcome) ==
    IF outcome = "ok" THEN None
    ELSE IF outcome \in {"HTTPError", "ValueError", "not_ok"} THEN Some("TelegramError")
    ELSE Some(outcome)

\* the except clauses without the last one
SendCatchesNamedOnly(kind) == kind \in {"TimeoutError", "TelegramError"}

\* the except clauses of the two senders: TimeoutError, TelegramError, Exception
SendCatches(kind) == kind \in {"TimeoutError", "TelegramError"} \/ IsException(kind)

SendCalls == { Call(fn, [formats |-> ok], [timeout |-> SEND_TIMEOUT]) : fn \in Senders, ok \in BOOLEAN }

InitNotify ==
    /\ now = 0
    /\ running = FALSE
    /\ seen_deals = EmptyMap
    /\ last_deal_key = None
    /\ last_heartbeat = 0
    /\ last_dom_check_time = LongAgo
    /\ check_requested = FALSE
    /\ dd_seen = EmptyMap
    /\ tasks = [tk \in TaskIds |-> Fresh("idle")]
    /\ obs_log = << >>
    /\ notifications = << >>
    /\ site \in SendCalls
    /\ handles = NoHandles
    /\ scanner = NewScanner
    /\ blocked_requests_count = 0

Posted(outcome) == [kind |-> "post", attempt |-> tasks["watch"].obs, at |-> now, outcome |-> outcome]

\* the call ends: it returns out, or the exception `failure' leaves it when no clause catches it
SendEnds(out, failure) ==
    [kind |-> "end", fn |-> site.fn,
     out |-> IF IsNone(failure) THEN Some(out) ELSE IF SendCatches(Val(failure)) THEN Some(FALSE) ELSE None,
     raised |-> ~IsNone(failure) /\ ~SendCatches(Val(failure)),
     failure |-> failure]

NotifyUnchanged ==
    UNCHANGED << running, seen_deals, last_deal_key, last_heartbeat, last_dom_check_time,
                 check_requested, dd_seen, notifications, site, handles, scanner, blocked_requests_count >>

\* the sender is called: it formats the message and starts the first attempt
SendBegin ==
    /\ tasks["watch"].pc = "idle"
    /\ obs_log = << >>
    /\ IF site.arg.formats
       THEN /\ tasks' = [tasks EXCEPT !["watch"] = [pc |-> "post", obs |-> 1, deal |-> None]]
            /\ UNCHANGED obs_log
       ELSE /\ tasks' = [tasks EXCEPT !["watch"].pc = "sent"]
            /\ obs_log' = Append(obs_log, SendEnds(FALSE, Some("Exception")))
    /\ UNCHANGED now
    /\ NotifyUnchanged

\* the post of the current attempt ends after d, unless the limit of the call ends it first
PostDone(outcome, d) ==
    /\ tasks["watch"].pc = "post"
    /\ IF now + d >= site.about.timeout
       THEN /\ now' = site.about.timeout
            /\ tasks' = [tasks EXCEPT !["watch"].pc = "sent"]
            /\ obs_log' = Append(obs_log, SendEnds(FALSE, Some("TimeoutError")))
       ELSE /\ now' = now + d
            /\ IF IsNone(AttemptRaises(outcome))
               THEN /\ tasks' = [tasks EXCEPT !["watch"].pc = "sent"]
                    /\ obs_log' = Append(Append(obs_log, Posted(outcome)), SendEnds(TRUE, None))
               ELSE IF tasks["watch"].obs >= STOP_AFTER_ATTEMPT
               THEN /\ tasks' = [tasks EXCEPT !["watch"].pc = "sent"]
                    /\ obs_log' = Append(Append(obs_log, Posted(outcome)), SendEnds(FALSE, AttemptRaises(outcome)))
               ELSE /\ tasks' = [tasks EXCEPT !["watch"].pc = "retry_wait"]
                    /\ obs_log' = Append(obs_log, Posted(outcome))
    /\ NotifyUnchanged

\* the wait between two attempts ends, unless the limit of the call ends it first
RetryWaitDone ==
    /\ tasks["watch"].pc = "retry_wait"
    /\ IF now + RETRY_WAIT >= site.about.timeout
       THEN /\ now' = site.about.timeout
            /\ tasks' = [tasks EXCEPT !["watch"].pc = "sent"]
            /\ obs_log' = Append(obs_log, SendEnds(FALSE, Some("TimeoutError")))
       ELSE /\ now' = now + RETRY_WAIT
            /\ tasks' = [tasks EXCEPT !["watch"] = [pc |-> "post", obs |-> tasks["watch"].obs + 1, deal |-> None]]
            /\ UNCHANGED obs_log
    /\ NotifyUnchanged

NextNotify ==
    \/ SendBegin
    \/ \E outcome \in PostOutcomes, d \in PostDurations : PostDone(outcome, d)
    \/ RetryWaitDone

SpecNotify == InitNotify /\ [][NextNotify]_vars

\* the posts made so far, and the end of the call
PostsMade == { n \in 1..Len(obs_log) : obs_log[n].kind = "post" }
SendEnded == { n \in 1..Len(obs_log) : obs_log[n].kind = "end" }

\* C23: telegram_send and send_telegram_message never raise; they return True only when the
\* Telegram API accepted the message, and False on a Telegram error, a timeout or any other
\* exception; one call makes at most two posts
C23_SendersNeverRaise ==
    /\ Cardinality(PostsMade) <= 2
    /\ \A n \in SendEnded :
          /\ ~obs_log[n].raised
          /\ obs_log[n].out \in {Some(TRUE), Some(FALSE)}
          /\ obs_log[n].out = Some(TRUE) =>
                n > 1 /\ obs_log[n - 1].kind = "post" /\ obs_log[n - 1].outcome = "ok"
          /\ ~IsNone(obs_log[n].failure) => obs_log[n].out = Some(FALSE)

\* a call whose two posts both failed, the second with an exception that is neither a
\* TelegramError nor a TimeoutError, has returned False
C23_SecondAttemptFailed ==
    \E n \in SendEnded :
        /\ Cardinality(PostsMade) = 2
        /\ obs_log[n - 1].outcome = "Exception"
        /\ obs_log[n].out = Some(FALSE)
        /\ ~obs_log[n].raised

(***************************************************************************)
(* Start and shutdown: WineDealScanner.run and shutdown, watch_deals, and  *)
(* DealWatcher._setup_browser, watch and _cleanup_browser around the watch *)
(* loop.  The watch task stands at "start" until it first runs, then at    *)
(* the awaits of _setup_browser, at page.goto, in the loop, and at the     *)
(* awaits of _cleanup_browser.                                             *)
(***************************************************************************)
MaxShutdownObs == 1

SetupPcs == {"playwright", "launch", "new_context", "new_page"}
CleanupPcs == {"close_page", "close_context", "close_browser"}

ShutdownSites == { Site("NetNoPrice", pg, "none", MaxShutdownObs) : pg \in {"PageA", "PageAttr"} }

InitShutdown ==
    /\ now = 0
    /\ running = FALSE
    /\ seen_deals = EmptyMap
    /\ last_deal_key = None
    /\ last_heartbeat = 0
    /\ last_dom_check_time = LongAgo
    /\ check_requested = FALSE
    /\ dd_seen = EmptyMap
    /\ tasks = [tk \in TaskIds |-> Fresh(IF tk = "watch" THEN "start" ELSE "idle")]
    /\ obs_log = << >>
    /\ notifications = << >>
    /\ site \in ShutdownSites
    /\ handles = NoHandles
    /\ scanner = NewScanner
    /\ blocked_requests_count = 0

LifecycleUnchanged ==
    UNCHANGED << now, seen_deals, last_deal_key, last_heartbeat, last_dom_check_time,
                 check_requested, dd_seen, obs_log, notifications, site, blocked_requests_count >>

\* run() up to asyncio.wait: the watch task and the stop task are created
RunBegin ==
    /\ scanner.pc = "new"
    /\ scanner' = [scanner EXCEPT !.pc = "waiting", !.running = TRUE]
    /\ UNCHANGED << running, tasks, handles >>
    /\ LifecycleUnchanged

\* shutdown()
Shutdown ==
    /\ ~scanner.stop
    /\ scanner' = [scanner EXCEPT !.running = FALSE, !.stop = TRUE]
    /\ UNCHANGED << running, tasks, handles >>
    /\ LifecycleUnchanged

\* the watch task runs for the first time: watch_deals enters _setup_browser
WatchTaskBegins ==
    /\ scanner.pc # "new"
    /\ tasks["watch"].pc = "start"
    /\ tasks' = [tasks EXCEPT !["watch"].pc = "playwright"]
    /\ UNCHANGED << running, handles, scanner, blocked_requests_count >>
    /\ LifecycleUnchanged

\* the await _cleanup_browser stands at first with these handles: it closes what is set, page
\* first, and is done when nothing is
CleanupFrom(h) ==
    IF h.page THEN "close_page" ELSE IF h.context THEN "close_context"
    ELSE IF h.browser THEN "close_browser" ELSE "stopped"

\* _cleanup_browser begins
BeginCleanup ==
    /\ running' = FALSE
    /\ tasks' = [tasks EXCEPT !["watch"] = Fresh(CleanupFrom(handles))]
    /\ UNCHANGED handles

\* the except clause of _setup_browser and those of _cleanup_browser
SetupCatches(kind) == IsException(kind)
CleanupCatches(kind) == IsException(kind)

\* an await of _setup_browser ends; after the last one watch() sets `running' and goes to the site
SetupDone(failure) ==
    /\ tasks["watch"].pc \in SetupPcs
    /\ IF failure # "none"
       THEN BeginCleanup
       ELSE /\ tasks' = [tasks EXCEPT !["watch"].pc =
                            CASE tasks["watch"].pc = "playwright" -> "launch"
                              [] tasks["watch"].pc = "launch" -> "new_context"
                              [] tasks["watch"].pc = "new_context" -> "new_page"
                              [] tasks["watch"].pc = "new_page" -> "goto"]
            /\ handles' = [handles EXCEPT !.browser = @ \/ tasks["watch"].pc = "launch",
                                          !.context = @ \/ tasks["watch"].pc = "new_context",
                                          !.page = @ \/ tasks["watch"].pc = "new_page"]
            /\ running' = (running \/ tasks["watch"].pc = "new_page")
    /\ UNCHANGED scanner
    /\ LifecycleUnchanged

\* page.goto ends: the loop begins, or the failure leaves watch() and __aexit__ cleans up
GotoDone(failure) ==
    /\ tasks["watch"].pc = "goto"
    /\ IF failure = "none"
       THEN tasks' = [tasks EXCEPT !["watch"] = Fresh("iterate")] /\ UNCHANGED << running, handles >>
       ELSE BeginCleanup
    /\ UNCHANGED scanner
    /\ LifecycleUnchanged

CloseOutcomes == {"closed", "Exception", "TimeoutError"}

\* the close _cleanup_browser waits for ends, fails, or reaches its 5 s limit
CloseDone(outcome) ==
    /\ tasks["watch"].pc \in CleanupPcs
    /\ IF outcome = "closed" \/ CleanupCatches(outcome)
       THEN /\ handles' = [handles EXCEPT !.page = @ /\ tasks["watch"].pc # "close_page",
                                          !.context = @ /\ tasks["watch"].pc # "close_context",
                                          !.browser = @ /\ tasks["watch"].pc # "close_browser"]
            /\ tasks' = [tasks EXCEPT !["watch"].pc = CleanupFrom(handles')]
       ELSE /\ tasks' = [tasks EXCEPT !["watch"].pc = "stopped"]
            /\ UNCHANGED handles
    /\ UNCHANGED << running, scanner >>
    /\ LifecycleUnchanged

\* the stop event is set and asyncio.wait returns with the watch task pending: run() cancels
\* it.  CancelledError is raised at the await the task stands at.  No except clause of
\* _setup_browser or _cleanup_browser catches it, and outside watch() no __aexit__ follows; in
\* watch() the loop breaks, or the error leaves it, and __aexit__ cleans up
CancelWatch ==
    /\ scanner.pc = "waiting"
    /\ scanner.stop
    /\ tasks["watch"].pc # "stopped"
    /\ scanner' = [scanner EXCEPT !.pc = "cancelling", !.cancelled = Some(tasks["watch"].pc)]
    /\ IF tasks["watch"].pc = "start" \/ tasks["watch"].pc \in SetupPcs \cup CleanupPcs
       THEN tasks' = [tasks EXCEPT !["watch"] = Fresh("stopped")] /\ UNCHANGED << running, handles >>
       ELSE BeginCleanup
    /\ LifecycleUnchanged

\* asyncio.wait returns with the watch task done: run() returns
WatchEndsFirst ==
    /\ scanner.pc = "waiting"
    /\ tasks["watch"].pc = "stopped"
    /\ scanner' = [scanner EXCEPT !.pc = "returned"]
    /\ UNCHANGED << running, tasks, handles >>
    /\ LifecycleUnchanged

\* the cancelled watch task has ended: run() returns
RunReturns ==
    /\ scanner.pc = "cancelling"
    /\ tasks["watch"].pc = "stopped"
    /\ scanner' = [scanner EXCEPT !.pc = "returned"]
    /\ UNCHANGED << running, tasks, handles >>
    /\ LifecycleUnchanged

NextShutdown ==
    \/ RunBegin
    \/ Shutdown
    \/ WatchTaskBegins
    \/ \E failure \in Failures : SetupDone(failure)
    \/ \E failure \in Failures : GotoDone(failure)
    \/ \E outcome \in CloseOutcomes : CloseDone(outcome)
    \/ CancelWatch
    \/ WatchEndsFirst
    \/ RunReturns
    \/ PageMutation
    \/ DomCheck
    \/ \E o \in EnrichOutcomes : EnrichDone("watch", o)
    \/ \E o \in NotifyOutcomes : NotifyDone("watch", o)
    \/ \E o \in LookupOutcomes : CallbackLookupDone("watch", o)
    \/ CallbackSendDone("watch")
    \/ CallbackTimeout("watch")
    \/ \E d \in TimeSteps : Tick(d)

SpecShutdown == InitShutdown /\ [][NextShutdown]_vars

\* the event loop runs run() when asyncio.wait can return, and the watch task when the close
\* it waits for has ended or reached its limit
FairSpecShutdown ==
    /\ SpecShutdown
    /\ WF_vars(CancelWatch)
    /\ WF_vars(WatchEndsFirst)
    /\ WF_vars(RunReturns)
    /\ WF_vars(\E outcome \in CloseOutcomes : CloseDone(outcome))

ShutdownCalled == scanner.stop /\ scanner.pc # "new"
RunReturned == scanner.pc = "returned"

\* everything the watcher opened is closed and forgotten, and it is not running
AllClosed == tasks["watch"].pc = "stopped" /\ handles = NoHandles /\ ~running

\* a step after the cancellation takes no observation
NoObservationAfterCancel == [][scanner.pc \in {"cancelling", "returned"} => obs_log' = obs_log]_vars

\* C24: after shutdown() run() eventually returns; the watch task is cancelled, the loop takes
\* no further observation, and when run() has returned the page, the context and the browser
\* of the watcher are closed and None and `running' is False
C24_ShutdownClosesEverything ==
    /\ ShutdownCalled ~> RunReturned
    /\ [](ShutdownCalled /\ RunReturned => AllClosed)
    /\ NoObservationAfterCancel

\* what the code does guarantee: after shutdown() run() eventually returns
ShutdownReturns == ShutdownCalled ~> RunReturned

\* what the code does guarantee: everything is closed when run() has returned, unless the
\* cancellation reached the watch task inside _setup_browser or inside _cleanup_browser
ClosedUnlessCancelledOutsideWatch ==
    ShutdownCalled /\ RunReturned
        /\ (IsNone(scanner.cancelled) \/ Val(scanner.cancelled) \notin SetupPcs \cup CleanupPcs)
    => AllClosed

(***************************************************************************)
(* vivino.get_vivino_info                                                  *)
(***************************************************************************)
\* config.VIVINO_TIMEOUT_SECONDS in ms: the limit of one request; the lookup as a whole has twice
\* as long (asyncio.timeout(VIVINO_TIMEOUT_SECONDS * 2))
VIVINO_TIMEOUT_SECONDS == 2000
\* stop_after_attempt(3) of _search_vivino_comprehensive, and its three endpoints
SEARCH_ATTEMPTS == 3
SEARCH_ENDPOINTS == 3

\* wait_exponential(multiplier=1, min=1, max=5) after the given attempt
SearchRetryWait(attempt) == IF attempt = 1 THEN RETRY_WAIT ELSE 2 * RETRY_WAIT

\* what wines[0] of an answer can be: a wine with its statistics; a wine whose rating is not a
\* number (float() raises ValueError inside _extract_wine_data); something that is not a dict
WineShapes == {"full", "bad_rating", "not_dict"}
\* how one request to an endpoint ends: with wines; with no wines; httpx.HTTPError (a timeout of
\* the request included); a body that is not JSON (ValueError); any other exception
RequestOutcomes == WineShapes \cup {"empty", "HTTPError", "ValueError", "Exception"}
RequestDurations == {VIVINO_TIMEOUT_SECONDS \div 10, VIVINO_TIMEOUT_SECONDS}

\* _extract_wine_data: rating, price and reviews of a wine, or the exception that leaves it
ExtractWineData(shape) ==
    IF shape = "full" THEN Some([rating |-> Some(42), price |-> Some(2500), reviews |-> Some(100)])
    ELSE IF shape = "bad_rating" THEN Some([rating |-> None, price |-> None, reviews |-> None])
    ELSE None

EmptyVivinoResult ==
    [vintage_rating |-> None, vintage_price |-> None, vintage_reviews |-> None,
     overall_rating |-> None, overall_price |-> None, overall_reviews |-> None]

\* Python's `if vintage:' of an Optional[int]
VintageGiven(vintage) == ~IsNone(vintage) /\ Val(vintage) # 0

VivinoCalls ==
    { Call("get_vivino_info", [vintage |-> v], [limit |-> 2 * VIVINO_TIMEOUT_SECONDS]) :
        v \in {None, Some(0), Some(2020)} }

InitVivino ==
    /\ now = 0
    /\ running = FALSE
    /\ seen_deals = EmptyMap
    /\ last_deal_key = None
    /\ last_heartbeat = 0
    /\ last_dom_check_time = LongAgo
    /\ check_requested = FALSE
    /\ dd_seen = EmptyMap
    /\ tasks = [tk \in TaskIds |-> Fresh("idle")]
    /\ obs_log = << >>
    /\ notifications = << >>
    /\ site \in VivinoCalls
    /\ handles = NoHandles
    /\ scanner = NewScanner
    /\ blocked_requests_count = 0

VivinoUnchanged ==
    UNCHANGED << running, seen_deals, last_deal_key, last_heartbeat, last_dom_check_time,
                 check_requested, dd_seen, notifications, site, handles, scanner, blocked_requests_count >>

\* where the lookup stands: the search it is in, the endpoint and the attempt of that search,
\* and the result as filled so far
Lookup(pc, search, endpoint, attempt, result) ==
    [pc |-> pc, search |-> search, obs |-> endpoint, attempt |-> attempt, deal |-> result]

SearchBegins(search) == [kind |-> "search", search |-> search, at |-> now]
\* a search ends: it found wines[0] of the given shape, found nothing, or raised
SearchEnds(search, ending) == [kind |-> "search_end", search |-> search, ending |-> ending]
\* the lookup ends: it returns the result; raised says an exception left get_vivino_info
LookupEnds(result, failure) ==
    [kind |-> "end", out |-> Some(result), raised |-> FALSE, failure |-> failure]

\* the result after a search that returned wines[0] of the given shape
Filled(result, search, shape) ==
    IF IsNone(ExtractWineData(shape)) THEN result
    ELSE IF search = "vintage"
    THEN [result EXCEPT !.vintage_rating = Val(ExtractWineData(shape)).rating,
                        !.vintage_price = Val(ExtractWineData(shape)).price,
                        !.vintage_reviews = Val(ExtractWineData(shape)).reviews]
    ELSE [result EXCEPT !.overall_rating = Val(ExtractWineData(shape)).rating,
                        !.overall_price = Val(ExtractWineData(shape)).price,
                        !.overall_reviews = Val(ExtractWineData(shape)).reviews]

\* get_vivino_info is called: the vintage search starts when a vintage is given, else the general
LookupBegin ==
    /\ tasks["watch"].pc = "idle"
    /\ obs_log = << >>
    /\ site.fn = "get_vivino_info"
    /\ IF VintageGiven(site.arg.vintage)
       THEN /\ tasks' = [tasks EXCEPT !["watch"] = Lookup("request", "vintage", 1, 1, EmptyVivinoResult)]
            /\ obs_log' = Append(obs_log, SearchBegins("vintage"))
       ELSE /\ tasks' = [tasks EXCEPT !["watch"] = Lookup("request", "general", 1, 1, EmptyVivinoResult)]
            /\ obs_log' = Append(obs_log, SearchBegins("general"))
    /\ UNCHANGED now
    /\ VivinoUnchanged

\* the same without the inner try of each search: a search that raises ends the lookup
AfterSearchUnguarded(ending, result) ==
    IF tasks["watch"].search = "vintage" /\ ending # "failed"
    THEN /\ tasks' = [tasks EXCEPT !["watch"] = Lookup("request", "general", 1, 1, result)]
         /\ obs_log' = Append(Append(obs_log, SearchEnds("vintage", ending)), SearchBegins("general"))
    ELSE /\ tasks' = [tasks EXCEPT !["watch"] = Lookup("returned", tasks["watch"].search, 0, 0, result)]
         /\ obs_log' = Append(Append(obs_log, SearchEnds(tasks["watch"].search, ending)),
                              LookupEnds(result, IF ending = "failed" THEN Some("Exception") ELSE None))

\* the search the lookup is in has ended and the result is `result': the general search follows
\* the vintage search, the return follows the general search
AfterSearch(ending, result) ==
    IF tasks["watch"].search = "vintage"
    THEN /\ tasks' = [tasks EXCEPT !["watch"] = Lookup("request", "general", 1, 1, result)]
         /\ obs_log' = Append(Append(obs_log, SearchEnds("vintage", ending)), SearchBegins("general"))
    ELSE /\ tasks' = [tasks EXCEPT !["watch"] = Lookup("returned", "general", 0, 0, result)]
         /\ obs_log' = Append(Append(obs_log, SearchEnds("general", ending)), LookupEnds(result, None))

\* the limit of the whole lookup expires: the TimeoutError is caught and the result returned
LookupTimesOut ==
    /\ now' = site.about.limit
    /\ tasks' = [tasks EXCEPT !["watch"].pc = "returned"]
    /\ obs_log' = Append(obs_log, LookupEnds(tasks["watch"].deal, Some("TimeoutError")))

\* the request to the current endpoint ends after d, unless the limit of the lookup ends it first
RequestDone(outcome, d) ==
    /\ tasks["watch"].pc = "request"
    /\ IF now + d >= site.about.limit
       THEN LookupTimesOut
       ELSE /\ now' = now + d
            /\ IF outcome \in WineShapes
               THEN AfterSearch(IF IsNone(ExtractWineData(outcome)) THEN "failed" ELSE "found",
                                Filled(tasks["watch"].deal, tasks["watch"].search, outcome))
               ELSE IF outcome \in {"empty", "HTTPError", "ValueError"}
               THEN IF tasks["watch"].obs < SEARCH_ENDPOINTS
                    THEN /\ tasks' = [tasks EXCEPT !["watch"].obs = @ + 1]
                         /\ UNCHANGED obs_log
                    ELSE AfterSearch("nothing", tasks["watch"].deal)
               ELSE IF tasks["watch"].attempt < SEARCH_ATTEMPTS
               THEN /\ tasks' = [tasks EXCEPT !["watch"].pc = "retry_wait"]
                    /\ UNCHANGED obs_log
               ELSE AfterSearch("failed", tasks["watch"].deal)
    /\ VivinoUnchanged

\* the wait before the next attempt of the search ends, unless the limit of the lookup ends it
SearchRetryWaitDone ==
    /\ tasks["watch"].pc = "retry_wait"
    /\ "search" \in DOMAIN tasks["watch"]
    /\ IF now + SearchRetryWait(tasks["watch"].attempt) >= site.about.limit
       THEN LookupTimesOut
       ELSE /\ now' = now + SearchRetryWait(tasks["watch"].attempt)
            /\ tasks' = [tasks EXCEPT !["watch"] =
                            Lookup("request", tasks["watch"].search, 1, tasks["watch"].attempt + 1,
                                   tasks["watch"].deal)]
            /\ UNCHANGED obs_log
    /\ VivinoUnchanged

NextVivino ==
    \/ LookupBegin
    \/ \E outcome \in RequestOutcomes, d \in RequestDurations : RequestDone(outcome, d)
    \/ SearchRetryWaitDone

SpecVivino == InitVivino /\ [][NextVivino]_vars

\* the searches begun and ended so far, and the end of the lookup
SearchesBegun(search) == { n \in 1..Len(obs_log) : obs_log[n].kind = "search" /\ obs_log[n].search = search }
SearchesEnded(search) == { n \in 1..Len(obs_log) : obs_log[n].kind = "search_end" /\ obs_log[n].search = search }
LookupEnded == { n \in 1..Len(obs_log) : obs_log[n].kind = "end" }
VintageFieldsAbsent(result) ==
    IsNone(result.vintage_rating) /\ IsNone(result.vintage_price) /\ IsNone(result.vintage_reviews)
SixKeys == {"vintage_rating", "vintage_price", "vintage_reviews",
            "overall_rating", "overall_price", "overall_reviews"}

\* the parts of the lookup that hold whether or not the limit expires: the vintage search runs
\* only when a vintage is given and before any general search, a vintage search that fails or
\* finds nothing leaves the three vintage fields absent, the function never raises and returns
\* all six keys
LookupOrderAndResult ==
    /\ SearchesBegun("vintage") # {} => VintageGiven(site.arg.vintage)
    /\ \A v \in SearchesBegun("vintage"), g \in SearchesBegun("general") : v < g
    /\ Cardinality(SearchesBegun("vintage")) <= 1 /\ Cardinality(SearchesBegun("general")) <= 1
    /\ \A e \in LookupEnded :
          /\ ~obs_log[e].raised
          /\ DOMAIN Val(obs_log[e].out) = SixKeys
          /\ VintageGiven(site.arg.vintage) => SearchesBegun("vintage") # {}
          /\ (\A n \in SearchesEnded("vintage") : obs_log[n].ending = "found")
                \/ VintageFieldsAbsent(Val(obs_log[e].out))
          /\ SearchesEnded("vintage") = {} => VintageFieldsAbsent(Val(obs_log[e].out))

WatchObservations == { n \in 1..Len(obs_log) : obs_log[n].task = "watch" }
LegacyNotifications ==
    { k \in 1..Len(notifications) : notifications[k].via = "legacy" /\ notifications[k].obs \in WatchObservations }

HtmlFirst(found) ==
    /\ \A n \in WatchObservations :
          /\ obs_log[n].src = "dom"
          /\ IF ~IsNone(found.html)
             THEN obs_log[n].dd = Val(found.html) /\ IsNone(obs_log[n].legacy)
             ELSE ~IsNone(found.dom) /\ obs_log[n].legacy = found.dom
    /\ ~IsNone(found.html) =>
          /\ LegacyNotifications = {}
          /\ tasks["watch"].pc \notin {"cb_lookup", "cb_send"}
          /\ IsNone(tasks["watch"].deal)

\* C26: in _check_dom_for_deals the HTML extraction comes first; when it yields a deal, that deal
\* goes through the pipeline and neither the result of the legacy DOM extraction nor the legacy
\* callback is used; the legacy extraction is used only when the HTML extraction yields nothing
C26_HtmlExtractionFirst == HtmlFirst(PageOf(site))

\* a deal of the HTML extraction went through the pipeline and its notification was made, on a
\* page where the legacy extraction finds a deal too
HtmlDealNotified(found) ==
    /\ ~IsNone(found.html) /\ ~IsNone(found.dom)
    /\ \E n \in WatchObservations : obs_log[n].new /\ obs_log[n].enrich = "data"
    /\ \E k \in 1..Len(notifications) : notifications[k].via = "pipeline"
    /\ tasks["watch"].pc = "iterate"
C26_HtmlDealNotified == HtmlDealNotified(PageOf(site))

(***************************************************************************)
(* DealWatcher._check_dom_for_deals: the debounce.  The checks come at any *)
(* time, as when the method is called directly, and time passes in steps   *)
(* shorter than the debounce delay.                                        *)
(***************************************************************************)
MaxDebounceObs == 2
MaxDebounceTime == 1000
ShortSteps == {100, 300}
\* DealWatcher.debounce_delay, in ms
DEBOUNCE_DELAY == 400

DebounceSites == { Site("NetNoPrice", pg, "none", MaxDebounceObs) : pg \in {"PageA", "PageEmpty"} }

InitDebounce ==
    /\ now = 0
    /\ running = FALSE
    /\ seen_deals = EmptyMap
    /\ last_deal_key = None
    /\ last_heartbeat = 0
    /\ last_dom_check_time = LongAgo
    /\ check_requested = FALSE
    /\ dd_seen = EmptyMap
    /\ tasks = [tk \in TaskIds |-> Fresh(IF tk = "watch" THEN "start" ELSE "idle")]
    /\ obs_log = << >>
    /\ notifications = << >>
    /\ site \in DebounceSites
    /\ handles = NoHandles
    /\ scanner = RunningScanner
    /\ blocked_requests_count = 0

\* a short time passes, wherever the watch task stands
ShortTick(d) ==
    /\ now + d <= MaxDebounceTime
    /\ now' = now + d
    /\ UNCHANGED << running, seen_deals, last_deal_key, last_heartbeat, last_dom_check_time,
                    check_requested, dd_seen, tasks, obs_log, notifications, site, handles, scanner, blocked_requests_count >>

NextDebounce ==
    \/ StartWatch
    \/ PageMutation
    \/ DomCheck
    \/ \E o \in EnrichOutcomes : EnrichDone("watch", o)
    \/ \E o \in NotifyOutcomes : NotifyDone("watch", o)
    \/ \E d \in ShortSteps : ShortTick(d)

SpecDebounce == InitDebounce /\ [][NextDebounce]_vars

\* the loop goes on polling, time goes on, and the awaits of the pipeline end (each has a limit)
FairSpecDebounce ==
    /\ SpecDebounce
    /\ WF_vars(StartWatch)
    /\ WF_vars(DomCheck)
    /\ WF_vars(\E o \in EnrichOutcomes : EnrichDone("watch", o))
    /\ WF_vars(\E o \in NotifyOutcomes : NotifyDone("watch", o))
    /\ WF_vars(\E d \in ShortSteps : ShortTick(d))

\* the watch task stands before a call of _check_dom_for_deals
BeforeCheck == tasks["watch"].pc \in {"iterate", "error_sleep"}
InDebounceWindow == now - last_dom_check_time < DEBOUNCE_DELAY

\* the flag is cleared, and last_dom_check_time set, only by a check that proceeds, and a check
\* proceeds only outside the debounce window
ProceedsOnlyAfterDelay ==
    [][ (check_requested' # check_requested /\ check_requested) \/ last_dom_check_time' # last_dom_check_time
          => /\ BeforeCheck /\ check_requested /\ ~InDebounceWindow
             /\ ~check_requested' /\ last_dom_check_time' = now ]_vars

\* a check inside the debounce window extracts nothing and leaves the flag and the time alone
SuppressedCheckKeepsRequest ==
    [][ BeforeCheck /\ check_requested /\ InDebounceWindow
          => UNCHANGED << check_requested, last_dom_check_time, obs_log, notifications, seen_deals, last_deal_key >>
             /\ tasks'["watch"].pc \in {"iterate", "error_sleep"} ]_vars

\* a request made early enough for the delay to pass before the clock of the model ends is served
RequestServed ==
    (check_requested /\ now + DEBOUNCE_DELAY <= MaxDebounceTime) ~> ~check_requested

\* C27: a DOM check whose request flag is set proceeds to extraction only if at least
\* debounce_delay (0.4 s) has passed since the last check that proceeded; a suppressed check
\* fetches nothing and leaves the flag set and last_dom_check_time unchanged, so the pending
\* request is served by a later poll and never lost
C27_DebounceKeepsRequest ==
    /\ ProceedsOnlyAfterDelay
    /\ SuppressedCheckKeepsRequest
    /\ RequestServed

\* a request is pending inside the debounce window of a check that proceeded, and the watch task
\* stands before its next check
C27_RequestPendingInWindow ==
    /\ BeforeCheck /\ check_requested /\ InDebounceWindow
    /\ Len(obs_log) >= 1
    /\ last_dom_check_time >= 0

(***************************************************************************)
(* DealWatcher._setup_request_blocking: the request handler of safe mode   *)
(***************************************************************************)
MaxRequests == 2

blocked_domains ==
    {"google-analytics.com", "googletagmanager.com", "facebook.com", "facebook.net", "doubleclick.net",
     "googlesyndication.com", "googleadservices.com", "adsystem.amazon.com", "amazon-adsystem.com",
     "scorecardresearch.com", "quantserve.com", "outbrain.com", "taboola.com", "bing.com", "hotjar.com",
     "fullstory.com", "segment.com", "mixpanel.com", "amplitude.com"}

\* resource types of the browser, and URLs: of the shop, of an analytics host (in capitals), and
\* of another host with an analytics domain in its query
ResourceTypes ==
    {"image", "media", "font", "xhr", "fetch", "document", "stylesheet", "script", "websocket"}
RequestUrls ==
    {"https://shop.example/api/deal", "https://Static.HotJar.com/c.js", "https://cdn.example/l.js?ref=bing.com"}

\* `domain in url' for one of the blocked domains, url being request.url.lower()
OnBlockedDomain(url) == \E d \in blocked_domains : Contains(Lower(url), d)

\* the same handler with the check of the allowed types before the check of the domains
RequestHandlerTypesFirst(type, url) ==
    IF type \in {"image", "media", "font"} THEN [blocked |-> 1, calls |-> << "abort" >>]
    ELSE IF type \in {"xhr", "fetch", "document", "stylesheet", "script"} THEN [blocked |-> 0, calls |-> << "continue_" >>]
    ELSE [blocked |-> 1, calls |-> << "abort" >>]

\* request_handler: what it adds to blocked_requests_count and the calls it makes on the route
request_handler(type, url) ==
    IF type \in {"image", "media", "font"} THEN [blocked |-> 1, calls |-> << "abort" >>]
    ELSE IF OnBlockedDomain(url) THEN [blocked |-> 1, calls |-> << "abort" >>]
    ELSE IF type \in {"xhr", "fetch", "document", "stylesheet", "script"} THEN [blocked |-> 0, calls |-> << "continue_" >>]
    ELSE [blocked |-> 1, calls |-> << "abort" >>]

InitRoute ==
    /\ now = 0
    /\ running = FALSE
    /\ seen_deals = EmptyMap
    /\ last_deal_key = None
    /\ last_heartbeat = 0
    /\ last_dom_check_time = LongAgo
    /\ check_requested = FALSE
    /\ dd_seen = EmptyMap
    /\ tasks = [tk \in TaskIds |-> Fresh("idle")]
    /\ obs_log = << >>
    /\ notifications = << >>
    /\ site \in { Call("request_handler", [safe_mode |-> TRUE], [page |-> "PageA"]) }
    /\ handles = OpenHandles
    /\ scanner = RunningScanner
    /\ blocked_requests_count = 0

RouteUnchanged ==
    UNCHANGED << now, running, seen_deals, last_deal_key, last_heartbeat, last_dom_check_time,
                 check_requested, dd_seen, tasks, notifications, site, handles, scanner >>

Routed(type, url, handled) ==
    [kind |-> "route", type |-> type, url |-> url, calls |-> handled.calls, done |-> FALSE]

\* the page makes a request and the handler runs up to the await of its call on the route
RequestIntercepted(type, url, handled) ==
    /\ handles.page
    /\ Len(obs_log) < MaxRequests
    /\ blocked_requests_count' = blocked_requests_count + handled.blocked
    /\ obs_log' = Append(obs_log, Routed(type, url, handled))
    /\ RouteUnchanged

\* the call on the route of request n ends and the handler returns
RouteCallDone(n) ==
    /\ n \in 1..Len(obs_log)
    /\ ~obs_log[n].done
    /\ obs_log' = [obs_log EXCEPT ![n].done = TRUE]
    /\ UNCHANGED blocked_requests_count
    /\ RouteUnchanged

NextRoute ==
    \/ \E type \in ResourceTypes, url \in RequestUrls : RequestIntercepted(type, url, request_handler(type, url))
    \/ \E n \in 1..MaxRequests : RouteCallDone(n)

SpecRoute == InitRoute /\ [][NextRoute]_vars

Aborted == { n \in 1..Len(obs_log) : obs_log[n].calls = << "abort" >> }
Continued == { n \in 1..Len(obs_log) : obs_log[n].calls = << "continue_" >> }
\* a blocked analytics domain in the URL, whatever the case of its letters
NamesBlockedDomain(url) == Contains(Lower(url), "hotjar.com") \/ Contains(Lower(url), "bing.com")

\* C28: in safe mode every intercepted request gets exactly one verdict: image, media and font
\* are aborted; otherwise a request whose URL contains a blocked analytics domain is aborted,
\* a script too; otherwise xhr, fetch, document, stylesheet and script continue; every other
\* request is aborted; blocked_requests_count is the number of aborted requests
C28_OneVerdictPerRequest ==
    /\ \A n \in 1..Len(obs_log) :
          /\ Len(obs_log[n].calls) = 1
          /\ n \in Aborted \cup Continued
          /\ n \in Continued <=>
                /\ obs_log[n].type \in {"xhr", "fetch", "document", "stylesheet", "script"}
                /\ ~NamesBlockedDomain(obs_log[n].url)
    /\ blocked_requests_count = Cardinality(Aborted)

\* a script from an analytics host was aborted and a script of the shop continued
C28_AnalyticsScriptAborted ==
    /\ \E n \in Aborted : obs_log[n].type = "script" /\ NamesBlockedDomain(obs_log[n].url)
    /\ \E n \in Continued : obs_log[n].type = "script"
    /\ blocked_requests_count = 1
    /\ \A n \in 1..Len(obs_log) : obs_log[n].done

(***************************************************************************)
(* DealWatcher._log_heartbeat, called at any time                          *)
(***************************************************************************)
MaxHeartbeatCalls == 4
MaxHeartbeatTime == 200000
HeartbeatSteps == {10000, 50000, 60000}

InitHeartbeat ==
    /\ now = 0
    /\ running = TRUE
    /\ seen_deals = EmptyMap
    /\ last_deal_key = None
    /\ last_heartbeat = 0
    /\ last_dom_check_time = LongAgo
    /\ check_requested = FALSE
    /\ dd_seen = EmptyMap
    /\ tasks = [tk \in TaskIds |-> Fresh("idle")]
    /\ obs_log = << >>
    /\ notifications = << >>
    /\ site \in { Call("_log_heartbeat", [interval |-> 60000], [safe_mode |-> sm]) : sm \in BOOLEAN }
    /\ handles = OpenHandles
    /\ scanner = RunningScanner
    /\ blocked_requests_count = 0

HeartbeatUnchanged ==
    UNCHANGED << running, seen_deals, last_deal_key, last_dom_check_time, check_requested, dd_seen,
                 tasks, notifications, site, handles, scanner, blocked_requests_count >>

\* a call of _log_heartbeat, noted in obs_log with whether it logged the heartbeat
HeartbeatCall(last) == [kind |-> "heartbeat", at |-> now, emitted |-> last # last_heartbeat]

LogHeartbeat ==
    /\ Len(obs_log) < MaxHeartbeatCalls
    /\ last_heartbeat' = log_heartbeat(last_heartbeat, now)
    /\ obs_log' = Append(obs_log, HeartbeatCall(log_heartbeat(last_heartbeat, now)))
    /\ UNCHANGED now
    /\ HeartbeatUnchanged

HeartbeatTick(d) ==
    /\ now + d <= MaxHeartbeatTime
    /\ now' = now + d
    /\ UNCHANGED << last_heartbeat, obs_log >>
    /\ HeartbeatUnchanged

NextHeartbeat ==
    \/ LogHeartbeat
    \/ \E d \in HeartbeatSteps : HeartbeatTick(d)

SpecHeartbeat == InitHeartbeat /\ [][NextHeartbeat]_vars

Emitted == { n \in 1..Len(obs_log) : obs_log[n].emitted }
\* the time of the last heartbeat emitted before call n, or of the construction of the watcher
LastEmittedBefore(n) ==
    IF \E m \in Emitted : m < n
    THEN obs_log[CHOOSE m \in Emitted : m < n /\ \A k \in Emitted : k < n => k <= m].at
    ELSE 0

\* C29: _log_heartbeat emits a heartbeat if and only if at least 60 s have passed since the last
\* emitted heartbeat (or the construction of the watcher), and sets last_heartbeat to the
\* current time only when it emits: two emitted heartbeats are never less than 60 s apart, and
\* a call that does not emit changes no state
C29_HeartbeatEverySixtySeconds ==
    /\ \A n \in 1..Len(obs_log) : obs_log[n].emitted <=> obs_log[n].at - LastEmittedBefore(n) >= 60000
    /\ \A m, n \in Emitted : m < n => obs_log[n].at - obs_log[m].at >= 60000
    /\ last_heartbeat = LastEmittedBefore(Len(obs_log) + 1)

\* a heartbeat was emitted exactly 60 s after the one before, and a call between them emitted none
C29_SecondHeartbeatAtSixty ==
    \E m, n \in Emitted :
        /\ m < n /\ obs_log[n].at - obs_log[m].at = 60000
        /\ \E k \in 1..Len(obs_log) : m < k /\ k < n /\ ~obs_log[k].emitted /\ obs_log[k].at > obs_log[m].at

(***************************************************************************)
(* run_minimal_watcher: the one remembered id                              *)
(***************************************************************************)
\* the iterations before n that took their deal for a new one, and those of them that reached
\* `last_deal_id = current_deal_id'
TakenForNewBefore(n) == { m \in 1..(n - 1) : obs_log[m].new }
RememberedBefore(n) == { m \in TakenForNewBefore(n) : obs_log[m].raised = "none" }
LatestOf(ms) == CHOOSE m \in ms : \A k \in ms : k <= m
IdOfLatest(ms) == IF ms = {} THEN None ELSE Some(deal_id(obs_log[LatestOf(ms)].title))

\* C30: run_minimal_watcher attempts a notification exactly when the current non-generic title,
\* trimmed and lower-cased, differs from the id of the last deal it handled; it remembers only
\* that id and updates it after every attempt, so an unchanged deal notifies once and the
\* sequence A, B, A notifies three times
C30_NotifiesIffIdChanged ==
    /\ \A n \in 1..Len(obs_log) :
          /\ obs_log[n].skipped => ~MinimalNotified(n)
          /\ ~obs_log[n].skipped =>
                (MinimalNotified(n) <=> Some(deal_id(obs_log[n].title)) # IdOfLatest(TakenForNewBefore(n)))
    /\ last_deal_key = IdOfLatest(TakenForNewBefore(Len(obs_log) + 1))

\* the same for the deals whose Deal object can be built: an iteration notifies exactly when its
\* id differs from the id the last notifying iteration left, and the id remembered is that one
NotifiesIffIdChangedWhenPriced ==
    /\ \A n \in 1..Len(obs_log) :
          /\ obs_log[n].skipped => ~MinimalNotified(n)
          /\ ~obs_log[n].skipped /\ ~IsNone(obs_log[n].price) =>
                (MinimalNotified(n) <=> Some(deal_id(obs_log[n].title)) # IdOfLatest(RememberedBefore(n)))
          /\ MinimalNotified(n) <=> obs_log[n].new /\ obs_log[n].raised = "none"
    /\ last_deal_key = IdOfLatest(RememberedBefore(Len(obs_log) + 1))

\* the sequence A, B, A with prices: three notifications
NotifiedThreeTimes ==
    /\ Len(obs_log) = 3 /\ Len(notifications) = 3
    /\ deal_id(obs_log[1].title) = deal_id(obs_log[3].title)
    /\ deal_id(obs_log[1].title) # deal_id(obs_log[2].title)

=============================================================================
